---------------------------- MODULE Spec2Model ----------------------------
(***************************************************************************)
(* A model of the stock playground backend: the relational store           *)
(* (StockInfo, StockPrice, StockTransaction, StockHoldingDetail), the       *)
(* service functions of src/backend/services/stock_service.py that write   *)
(* it, and the holding recomputation _update_stock_holding_detail.         *)
(*                                                                         *)
(* Every service function is one action: the handler up to its return,    *)
(* its commits and the recomputation it calls included.  Under SpecRace    *)
(* the recomputation is split at its await points.                         *)
(***************************************************************************)
EXTENDS Integers, Sequences, FiniteSets, TLC

VARIABLES
    stockinfo,      \* table stockinfo: set of rows [id, ticker, name, market, currency, updated_at]
    prices,         \* table stockprice: set of rows [stock_info_id, time, close]
    transactions,   \* table stocktransaction: rows in storage order (the order a SELECT loads them)
    holdings,       \* table stockholdingdetail: set of rows
    nextInfoId,     \* next primary key of stockinfo
    nextTxId,       \* next primary key of stocktransaction
    nextHoldId,     \* next primary key of stockholdingdetail
    last,           \* the last completed service call: its name, arguments and outcome
    runs,           \* SpecRecompute, SpecUpsert: how many times the function has run
    prev,           \* SpecRecompute, SpecUpsert: the tables the function writes, before its last run
    direct,         \* pairs whose holding row was last written by a holding-detail call
    pc,             \* SpecRace: each request's position
    local           \* SpecRace: each request's local variables; SpecUpsert: the call's arguments

vars == <<stockinfo, prices, transactions, holdings, nextInfoId, nextTxId,
          nextHoldId, last, runs, prev, direct, pc, local>>

-----------------------------------------------------------------------------
(* Bounds of the model.                                                     *)

\* Python's float is IEEE-754 binary64 (53 significand bits).  The model keeps
\* its arithmetic (round to nearest, ties to even) at a reduced width: a float
\* is an integer count of units of 2^-FracBits with at most MantissaBits
\* significant bits.
MantissaBits == 12
FracBits == 4
\* SpecRecompute: the longest ledger drawn.
MaxLedger == 4

-----------------------------------------------------------------------------
(* Python float arithmetic (total_amount, total_buy_amount,                 *)
(* average_buy_price are float).                                            *)

RECURSIVE Pow2(_)
Pow2(n) == IF n <= 0 THEN 1 ELSE 2 * Pow2(n - 1)

RECURSIVE BitLen(_)
BitLen(n) == IF n <= 0 THEN 0 ELSE 1 + BitLen(n \div 2)

\* The gap between neighbouring floats at magnitude n (in units).
Spacing(n) ==
    IF BitLen(n) > MantissaBits THEN Pow2(BitLen(n) - MantissaBits) ELSE 1

\* k * g or (k + 1) * g, whichever is nearer to A / q, where d = q * g and
\* k = A \div d; a tie goes to the even significand.
RoundStep(A, d, g, k) ==
    IF 2 * (A - k * d) > d \/ (2 * (A - k * d) = d /\ k % 2 = 1)
    THEN (k + 1) * g
    ELSE k * g

\* A / q (A >= 0, q > 0) rounded to the nearest multiple of the spacing g.
RoundMagnitude(A, q, g) == RoundStep(A, q * g, g, A \div (q * g))

\* a / q (q > 0) rounded to the nearest float, ties to the even significand.
RoundQuot(a, q) ==
    IF a < 0
    THEN -RoundMagnitude(-a, q, Spacing((-a) \div q))
    ELSE RoundMagnitude(a, q, Spacing(a \div q))

\* The float of a whole number x (exact when x has at most MantissaBits bits).
ToFloat(x) == RoundQuot(x * Pow2(FracBits), 1)

FAdd(a, b) == RoundQuot(a + b, 1)
FSub(a, b) == RoundQuot(a - b, 1)
FDiv(a, q) == RoundQuot(a, q)

-----------------------------------------------------------------------------
(* The ledger and the recomputation.                                        *)

\* transaction_type is a free string; the recomputation knows two values.
BUY == "buy"
SELL == "sell"
DIVIDEND == "dividend"

\* select(StockTransaction).where(user_id == u, stock_info_id == s), rows in
\* the order the store returns them.
SelectTransactions(txs, u, s) ==
    SelectSeq(txs, LAMBDA t : t.user_id = u /\ t.stock_info_id = s)

\* select(StockHoldingDetail).where(user_id == u, stock_info_id == s)
SelectHolding(hs, u, s) ==
    {h \in hs : h.user_id = u /\ h.stock_info_id = s}

\* FoldStep with a sale that leaves the running cost alone.
FoldStep_SellKeepsCost(acc, t) ==
    IF t.transaction_type = BUY
    THEN [acc EXCEPT !.holding_quantity = @ + t.quantity,
                     !.total_buy_amount = FAdd(@, t.total_amount)]
    ELSE IF t.transaction_type = SELL
    THEN [acc EXCEPT !.holding_quantity = @ - t.quantity]
    ELSE acc

\* One iteration of the loop over the loaded transactions.
FoldStep(acc, t) ==
    IF t.transaction_type = BUY
    THEN [acc EXCEPT !.holding_quantity = @ + t.quantity,
                     !.total_buy_amount = FAdd(@, t.total_amount)]
    ELSE IF t.transaction_type = SELL
    THEN [acc EXCEPT !.holding_quantity = @ - t.quantity,
                     !.total_buy_amount = FSub(@, t.total_amount)]
    ELSE acc

RECURSIVE FoldFrom(_, _, _)
FoldFrom(acc, txs, i) ==
    IF i > Len(txs) THEN acc ELSE FoldFrom(FoldStep(acc, txs[i]), txs, i + 1)

\* holding_quantity and total_buy_amount after the loop, from 0 and 0.0.
FoldTransactions(txs) ==
    FoldFrom([holding_quantity |-> 0, total_buy_amount |-> 0], txs, 1)

\* AverageBuyPrice with floor division (//) in place of true division.
AverageBuyPrice_FloorDiv(f) ==
    IF f.holding_quantity > 0
    THEN (f.total_buy_amount \div (f.holding_quantity * Pow2(FracBits))) * Pow2(FracBits)
    ELSE 0

AverageBuyPrice(f) ==
    IF f.holding_quantity > 0
    THEN FDiv(f.total_buy_amount, f.holding_quantity)
    ELSE 0

\* The row written when the pair has none yet.
\* A created row that records the quantity and no cost.
NewHoldingDetail_ZeroCost(id, u, s, tk, f) ==
    [id |-> id, user_id |-> u, stock_info_id |-> s, ticker |-> tk,
     holding_quantity |-> f.holding_quantity, average_buy_price |-> 0,
     total_buy_amount |-> 0]

NewHoldingDetail(id, u, s, tk, f) ==
    [id |-> id, user_id |-> u, stock_info_id |-> s, ticker |-> tk,
     holding_quantity |-> f.holding_quantity,
     average_buy_price |-> AverageBuyPrice(f),
     total_buy_amount |-> f.total_buy_amount]

\* UpdatedHoldingDetail adding the fold to what the row holds.
UpdatedHoldingDetail_Incremental(h, f) ==
    [h EXCEPT !.holding_quantity = @ + f.holding_quantity,
              !.total_buy_amount = FAdd(@, f.total_buy_amount)]

\* The row written over an existing one.
UpdatedHoldingDetail(h, f) ==
    [h EXCEPT !.holding_quantity = f.holding_quantity,
              !.average_buy_price = AverageBuyPrice(f),
              !.total_buy_amount = f.total_buy_amount]

\* _update_stock_holding_detail deleting the row only below zero.
_update_stock_holding_detail_KeepsZero(txs, hs, nid, u, s, tk) ==
    LET f     == FoldTransactions(SelectTransactions(txs, u, s))
        found == SelectHolding(hs, u, s)
    IN  IF f.holding_quantity < 0
        THEN [ok |-> TRUE, holdings |-> hs \ found, nextHoldId |-> nid]
        ELSE IF found # {}
        THEN [ok |-> TRUE,
              holdings |-> (hs \ found) \cup {UpdatedHoldingDetail(h, f) : h \in found},
              nextHoldId |-> nid]
        ELSE [ok |-> TRUE,
              holdings |-> hs \cup {NewHoldingDetail(nid, u, s, tk, f)},
              nextHoldId |-> nid + 1]

\* _update_stock_holding_detail run without interleaving on the committed
\* tables txs and hs: the tables it leaves and whether it completed.
_update_stock_holding_detail(txs, hs, nid, u, s, tk) ==
    LET f     == FoldTransactions(SelectTransactions(txs, u, s))
        found == SelectHolding(hs, u, s)
    IN  IF Cardinality(found) > 1
        THEN [ok |-> FALSE, holdings |-> hs, nextHoldId |-> nid]
        ELSE IF f.holding_quantity <= 0
        THEN [ok |-> TRUE, holdings |-> hs \ found, nextHoldId |-> nid]
        ELSE IF found # {}
        THEN [ok |-> TRUE,
              holdings |-> (hs \ found) \cup {UpdatedHoldingDetail(h, f) : h \in found},
              nextHoldId |-> nid]
        ELSE [ok |-> TRUE,
              holdings |-> hs \cup {NewHoldingDetail(nid, u, s, tk, f)},
              nextHoldId |-> nid + 1]

-----------------------------------------------------------------------------
(* Values shared by the specifications.                                     *)

NoCall == [op |-> "none"]

Pair(u, s) == <<u, s>>

BoundedSeqs(S, n) == UNION {[1..k -> S] : k \in 0..n}

\* The pair the recomputation is run for under SpecRecompute and SpecRace.
TargetUser == 1
TargetTicker == "A"
OtherUser == TargetUser + 1

\* The first StockInfo row of a fresh store.
TargetInfo ==
    [id |-> 1, ticker |-> TargetTicker, name |-> "n1", market |-> "m1",
     currency |-> "USD", updated_at |-> 0]
TargetStock == TargetInfo.id

-----------------------------------------------------------------------------
(* SpecRecompute: _update_stock_holding_detail as a function of the ledger. *)
(* Init draws the ledger (every order of every bounded selection of the     *)
(* transactions below) and the holding table the run finds; the one action  *)
(* runs the recomputation for the target pair.                              *)

\* Transactions a ledger is drawn from: type, quantity, total_amount, user.
\* The first four are those of test_stock_holding_detail_auto_update_on_transaction.
RecomputeKinds ==
    { [transaction_type |-> BUY,  quantity |-> 10, total_amount |-> 1000, user_id |-> TargetUser],
      [transaction_type |-> BUY,  quantity |-> 10, total_amount |-> 1200, user_id |-> TargetUser],
      [transaction_type |-> SELL, quantity |-> 5,  total_amount |-> 650,  user_id |-> TargetUser],
      [transaction_type |-> SELL, quantity |-> 15, total_amount |-> 2250, user_id |-> TargetUser],
      [transaction_type |-> BUY,  quantity |-> 1,  total_amount |-> 4096, user_id |-> TargetUser],
      [transaction_type |-> BUY,  quantity |-> 1,  total_amount |-> 1,    user_id |-> TargetUser],
      [transaction_type |-> DIVIDEND, quantity |-> 3, total_amount |-> 100, user_id |-> TargetUser],
      [transaction_type |-> BUY,  quantity |-> 10, total_amount |-> 1000, user_id |-> OtherUser] }

LedgerOf(ks) ==
    [i \in 1..Len(ks) |->
        [id |-> i, user_id |-> ks[i].user_id, stock_info_id |-> TargetStock,
         ticker |-> TargetTicker, transaction_type |-> ks[i].transaction_type,
         quantity |-> ks[i].quantity, total_amount |-> ToFloat(ks[i].total_amount)]]

\* Rows the run may find: written earlier through create_stock_holding_detail
\* (the values of test_create_stock_holding_detail).
StaleRows ==
    { [id |-> 1, user_id |-> TargetUser, stock_info_id |-> TargetStock, ticker |-> TargetTicker,
       holding_quantity |-> 50, average_buy_price |-> ToFloat(120), total_buy_amount |-> ToFloat(6000)],
      [id |-> 2, user_id |-> OtherUser, stock_info_id |-> TargetStock, ticker |-> TargetTicker,
       holding_quantity |-> 50, average_buy_price |-> ToFloat(120), total_buy_amount |-> ToFloat(6000)] }

InitRecompute ==
    /\ stockinfo = {TargetInfo}
    /\ prices = {}
    /\ \E ks \in BoundedSeqs(RecomputeKinds, MaxLedger) : transactions = LedgerOf(ks)
    /\ holdings \in {{}, StaleRows}
    /\ nextInfoId = 2
    /\ nextTxId = Len(transactions) + 1
    /\ nextHoldId = 3
    /\ last = NoCall
    /\ runs = 0
    /\ prev = holdings
    /\ direct = {}
    /\ pc = <<>>
    /\ local = <<>>

\* One call of _update_stock_holding_detail for the target pair; it is run twice.
RecomputeRun ==
    /\ runs < 2
    /\ \E r \in {_update_stock_holding_detail(transactions, holdings, nextHoldId,
                                             TargetUser, TargetStock, TargetTicker)} :
           /\ holdings' = r.holdings
           /\ nextHoldId' = r.nextHoldId
           /\ last' = [op |-> "_update_stock_holding_detail", ok |-> r.ok]
    /\ prev' = holdings
    /\ runs' = runs + 1
    /\ UNCHANGED <<stockinfo, prices, transactions, nextInfoId, nextTxId, direct, pc, local>>

SpecRecompute == InitRecompute /\ [][RecomputeRun]_vars

-----------------------------------------------------------------------------
(* What the ledger of a pair amounts to, computed without the loop: the     *)
(* buys and the sells are summed apart, in exact arithmetic, over the set   *)
(* of rows.                                                                 *)

Abs(x) == IF x < 0 THEN -x ELSE x

RECURSIVE SumOver(_, _)
SumOver(S, f) ==
    IF S = {} THEN 0
    ELSE LET i == CHOOSE x \in S : TRUE IN f[i] + SumOver(S \ {i}, f)

OfType(txs, ty) == {i \in 1..Len(txs) : txs[i].transaction_type = ty}

NetQuantity(txs) ==
    SumOver(OfType(txs, BUY), [i \in 1..Len(txs) |-> txs[i].quantity])
    - SumOver(OfType(txs, SELL), [i \in 1..Len(txs) |-> txs[i].quantity])

NetAmount(txs) ==
    SumOver(OfType(txs, BUY), [i \in 1..Len(txs) |-> txs[i].total_amount])
    - SumOver(OfType(txs, SELL), [i \in 1..Len(txs) |-> txs[i].total_amount])

GrossAmount(txs) ==
    SumOver(OfType(txs, BUY) \cup OfType(txs, SELL),
            [i \in 1..Len(txs) |-> Abs(txs[i].total_amount)])

\* Every partial sum of the amounts, in whatever order, is a float: the
\* amounts are multiples of one power of two and their magnitudes add up to
\* at most 2^MantissaBits of it (for binary64: whole amounts up to 2^53).
ExactlySummable(txs) ==
    LET S == OfType(txs, BUY) \cup OfType(txs, SELL)
        g == GrossAmount(txs)
    IN  \E j \in 0..BitLen(g) :
            /\ (g + Pow2(j) - 1) \div Pow2(j) <= Pow2(MantissaBits)
            /\ \A i \in S : txs[i].total_amount % Pow2(j) = 0

TargetLedger == SelectTransactions(transactions, TargetUser, TargetStock)
TargetRows == SelectHolding(holdings, TargetUser, TargetStock)
Ran == last.op = "_update_stock_holding_detail" /\ last.ok

\* The ledger of the test: buy 10 (1000), buy 10 (1200), sell 5 (650).
IsScenario3(txs) ==
    /\ Len(txs) = 3
    /\ \A i \in 1..3 : txs[i].user_id = TargetUser
    /\ <<txs[1].transaction_type, txs[1].quantity, txs[1].total_amount>> = <<BUY, 10, ToFloat(1000)>>
    /\ <<txs[2].transaction_type, txs[2].quantity, txs[2].total_amount>> = <<BUY, 10, ToFloat(1200)>>
    /\ <<txs[3].transaction_type, txs[3].quantity, txs[3].total_amount>> = <<SELL, 5, ToFloat(650)>>

\* C2 as stated: for any ledger, whatever the order it is loaded in, the row
\* written holds total_buy_amount = sum of the buy total_amounts - sum of the
\* sell total_amounts (and the quantity likewise).
C2_AnyLedgerExactTotal ==
    (Ran /\ NetQuantity(TargetLedger) > 0) =>
        \A h \in TargetRows :
            /\ h.holding_quantity = NetQuantity(TargetLedger)
            /\ h.total_buy_amount = NetAmount(TargetLedger)

\* C2, amended: after a run, whatever the order of the ledger,
\* holding_quantity = sum of buy quantities - sum of sell quantities;
\* total_buy_amount is the float sum accumulated in load order, and equals
\* sum of buy amounts - sum of sell amounts for every order whenever the
\* amounts are exactly summable; average_buy_price is the float quotient
\* total_buy_amount / holding_quantity when holding_quantity > 0, and there is
\* no row otherwise.  Buy 10 (1000), buy 10 (1200), sell 5 (650) gives 15,
\* 1550, 1550/15; a further sell of 15 removes the row.
C2_FoldComputesNetPosition ==
    Ran =>
        \A led \in {TargetLedger} :
        \A f \in {FoldTransactions(led)}, net \in {NetQuantity(led)},
           exact \in {ExactlySummable(led)} :
            /\ f.holding_quantity = net
            /\ exact => f.total_buy_amount = NetAmount(led)
            /\ net > 0 =>
                  /\ Cardinality(TargetRows) = 1
                  /\ \A h \in TargetRows :
                        /\ h.holding_quantity = net
                        /\ h.total_buy_amount = f.total_buy_amount
                        /\ h.average_buy_price = FDiv(h.total_buy_amount, h.holding_quantity)
            /\ net <= 0 => TargetRows = {} /\ AverageBuyPrice(f) = 0
            /\ IsScenario3(led) =>
                  /\ exact
                  /\ \A h \in TargetRows :
                        /\ h.holding_quantity = 15
                        /\ h.total_buy_amount = ToFloat(1550)
                        /\ h.average_buy_price = FDiv(ToFloat(1550), 15)
            /\ (Len(led) = 4 /\ IsScenario3(SubSeq(led, 1, 3))
                  /\ <<led[4].transaction_type, led[4].quantity>> = <<SELL, 15>>)
                  => TargetRows = {}

\* The test's ledger has been recomputed and the row holds 15 and 1550.
C2_Witness ==
    /\ Ran
    /\ IsScenario3(TargetLedger)
    /\ \E h \in TargetRows : h.holding_quantity = 15 /\ h.total_buy_amount = ToFloat(1550)

\* C3: when the net signed quantity of the pair's ledger is <= 0, no row of
\* the pair exists after the recomputation, which completes without error
\* whether or not it found a row, and it leaves the rows of other pairs alone.
C3_NoRowWhenNetNotPositive ==
    (runs >= 1 /\ NetQuantity(TargetLedger) <= 0) =>
        /\ last.ok
        /\ TargetRows = {}
        /\ holdings = prev \ SelectHolding(prev, TargetUser, TargetStock)

\* A run found the stale row of a pair whose net quantity is <= 0 and deleted it.
C3_Witness ==
    /\ runs = 1
    /\ NetQuantity(TargetLedger) <= 0
    /\ SelectHolding(prev, TargetUser, TargetStock) # {}
    /\ TargetRows = {}

\* C4: the second of two runs in a row changes nothing: the table after it
\* (row existence, row id, holding_quantity, average_buy_price,
\* total_buy_amount) is the table the first run left.
C4_RecomputeIdempotent ==
    runs = 2 => (last.ok /\ holdings = prev)

\* The second run found the row the first one wrote and rewrote it in place.
C4_Witness ==
    /\ runs = 2
    /\ TargetRows # {}
    /\ holdings = prev

-----------------------------------------------------------------------------
(* SpecHolding: the transaction and holding-detail service functions,       *)
(* called one at a time on a store with two StockInfo rows.                 *)

MaxTxId == 2
MaxHoldId == 2

\* An optional field of an update model: <<>> when unset, <<v>> when set.
Unset == <<>>
IsSet(o) == o # <<>>

StockIds == {1, 2}
HoldingStockInfo ==
    { [id |-> 1, ticker |-> "A", name |-> "n1", market |-> "m1", currency |-> "USD", updated_at |-> 0],
      [id |-> 2, ticker |-> "B", name |-> "n2", market |-> "m2", currency |-> "USD", updated_at |-> 0] }

\* StockTransactionCreate bodies: a buy of one share for 10 or a sale of one
\* share for 30, of either stock.
TxCreates ==
    { [user_id |-> TargetUser, stock_info_id |-> s, ticker |-> "A",
       transaction_type |-> k[1], quantity |-> 1, total_amount |-> ToFloat(k[2])] :
      s \in StockIds, k \in {<<BUY, 10>>, <<SELL, 30>>} }

\* StockTransactionUpdate bodies (brokerage and transaction_price, which no
\* computation reads, are left out): nothing set, or the type and the amount
\* set and the quantity left alone.
TxUpdates ==
    { [transaction_type |-> Unset, quantity |-> Unset, total_amount |-> Unset],
      [transaction_type |-> <<BUY>>, quantity |-> Unset, total_amount |-> <<ToFloat(10)>>],
      [transaction_type |-> <<SELL>>, quantity |-> Unset, total_amount |-> <<ToFloat(30)>>] }

\* StockHoldingDetailCreate bodies.
HoldingCreates ==
    [user_id : {TargetUser}, stock_info_id : StockIds, ticker : {"A"},
     holding_quantity : {50}, average_buy_price : {ToFloat(120)},
     total_buy_amount : {ToFloat(6000)}]

\* StockHoldingDetailUpdate bodies.
HoldingUpdates ==
    [holding_quantity : {Unset, <<7>>}, average_buy_price : {Unset},
     total_buy_amount : {Unset}]

InitHolding ==
    /\ stockinfo = HoldingStockInfo
    /\ prices = {}
    /\ transactions = <<>>
    /\ holdings = {}
    /\ nextInfoId = 3
    /\ nextTxId = 1
    /\ nextHoldId = 1
    /\ last = NoCall
    /\ runs = 0
    /\ prev = {}
    /\ direct = {}
    /\ pc = <<>>
    /\ local = <<>>

\* A lookup that falls back on the first transaction when the id is unknown.
TxAt_OrFirst(id) ==
    IF \E i \in 1..Len(transactions) : transactions[i].id = id
    THEN {i \in 1..Len(transactions) : transactions[i].id = id}
    ELSE {i \in 1..Len(transactions) : i = 1}

\* select(StockTransaction).where(id == transaction_id): the positions found.
TxAt(id) == {i \in 1..Len(transactions) : transactions[i].id = id}

\* for key, value in update_data.items(): setattr(db_transaction, key, value)
PatchedTransaction(t, u) ==
    [t EXCEPT !.transaction_type = IF IsSet(u.transaction_type) THEN u.transaction_type[1] ELSE @,
              !.quantity = IF IsSet(u.quantity) THEN u.quantity[1] ELSE @,
              !.total_amount = IF IsSet(u.total_amount) THEN u.total_amount[1] ELSE @]

\* for key, value in update_data.items(): setattr(db_holding_detail, key, value)
PatchedHolding(h, u) ==
    [h EXCEPT !.holding_quantity = IF IsSet(u.holding_quantity) THEN u.holding_quantity[1] ELSE @,
              !.average_buy_price = IF IsSet(u.average_buy_price) THEN u.average_buy_price[1] ELSE @,
              !.total_buy_amount = IF IsSet(u.total_buy_amount) THEN u.total_buy_amount[1] ELSE @]

\* A failing recomputation that commits its row before the error of every
\* statement.
RecomputeRaises_CommitsFirst(op, txs, t) ==
    \E r \in {_update_stock_holding_detail(txs, holdings, nextHoldId,
                                           t.user_id, t.stock_info_id, t.ticker)} :
        /\ r.nextHoldId <= MaxHoldId + 1
        /\ holdings' = r.holdings
        /\ nextHoldId' = r.nextHoldId
        /\ direct' = direct \ {Pair(t.user_id, t.stock_info_id)}
        /\ last' = [op |-> op, user_id |-> t.user_id,
                    stock_info_id |-> t.stock_info_id, ok |-> FALSE,
                    raised |-> "before_commit", written |-> t]

\* The recomputation ending in an error, on the ledger txs already
\* committed.  An error raised by a select or by the commit leaves the
\* holding rows as they are (the session is closed without a commit); an
\* error raised by the refresh that follows the commit of an updated or
\* inserted row comes after the row is stored.
RecomputeRaises(op, txs, t) ==
    \E at \in {"before_commit", "refresh"} :
    \E r \in {_update_stock_holding_detail(txs, holdings, nextHoldId,
                                           t.user_id, t.stock_info_id, t.ticker)} :
        /\ IF at = "refresh"
           THEN /\ r.ok
                /\ FoldTransactions(SelectTransactions(txs, t.user_id,
                                        t.stock_info_id)).holding_quantity > 0
                /\ r.nextHoldId <= MaxHoldId + 1
                /\ holdings' = r.holdings
                /\ nextHoldId' = r.nextHoldId
                /\ direct' = direct \ {Pair(t.user_id, t.stock_info_id)}
           ELSE UNCHANGED <<holdings, nextHoldId, direct>>
        /\ last' = [op |-> op, user_id |-> t.user_id,
                    stock_info_id |-> t.stock_info_id, ok |-> FALSE,
                    raised |-> at, written |-> t]

\* A recomputation that reads the ledger as it stood before the write.
RecomputeAfter_StaleLedger(op, txs, t) ==
    \E r \in {_update_stock_holding_detail(transactions, holdings, nextHoldId,
                                           t.user_id, t.stock_info_id, t.ticker)} :
        /\ r.nextHoldId <= MaxHoldId + 1
        /\ holdings' = r.holdings
        /\ nextHoldId' = r.nextHoldId
        /\ direct' = IF r.ok THEN direct \ {Pair(t.user_id, t.stock_info_id)} ELSE direct
        /\ last' = [op |-> op, user_id |-> t.user_id,
                    stock_info_id |-> t.stock_info_id, ok |-> r.ok]

\* The recomputation a transaction function ends with, on the ledger txs it
\* has committed, and the call's record.
RecomputeAfter(op, txs, t) ==
    \/ \E r \in {_update_stock_holding_detail(txs, holdings, nextHoldId,
                                              t.user_id, t.stock_info_id, t.ticker)} :
          /\ r.nextHoldId <= MaxHoldId + 1
          /\ holdings' = r.holdings
          /\ nextHoldId' = r.nextHoldId
          /\ direct' = IF r.ok THEN direct \ {Pair(t.user_id, t.stock_info_id)} ELSE direct
          /\ last' = [op |-> op, user_id |-> t.user_id,
                      stock_info_id |-> t.stock_info_id, ok |-> r.ok]
    \* under SpecFail, where pc is <<"faults">>, the statements may fail
    \/ /\ pc # <<>>
       /\ RecomputeRaises(op, txs, t)

HoldingFrame == UNCHANGED <<stockinfo, prices, nextInfoId, runs, prev, pc, local>>

\* create_stock_transaction(transaction = c)
create_stock_transaction(c) ==
        /\ nextTxId <= MaxTxId
        /\ LET t == [id |-> nextTxId, user_id |-> c.user_id, stock_info_id |-> c.stock_info_id,
                     ticker |-> c.ticker, transaction_type |-> c.transaction_type,
                     quantity |-> c.quantity, total_amount |-> c.total_amount]
           IN  /\ transactions' = Append(transactions, t)
               /\ nextTxId' = nextTxId + 1
               /\ RecomputeAfter("create_stock_transaction", Append(transactions, t), t)
        /\ HoldingFrame

\* update_stock_transaction(transaction_id = id, transaction_update = u)
update_stock_transaction(id, u) ==
        /\ \/ /\ TxAt(id) = {}
              /\ last' = [op |-> "update_stock_transaction", ok |-> FALSE]
              /\ UNCHANGED <<transactions, holdings, nextHoldId, direct>>
           \/ \E i \in TxAt(id) :
                LET t == PatchedTransaction(transactions[i], u)
                IN  /\ transactions' = [transactions EXCEPT ![i] = t]
                    /\ RecomputeAfter("update_stock_transaction",
                                      [transactions EXCEPT ![i] = t], t)
        /\ UNCHANGED nextTxId
        /\ HoldingFrame

\* delete_stock_transaction(transaction_id = id)
delete_stock_transaction(id) ==
        /\ \/ /\ TxAt(id) = {}
              /\ last' = [op |-> "delete_stock_transaction", ok |-> FALSE]
              /\ UNCHANGED <<transactions, holdings, nextHoldId, direct>>
           \/ \E i \in TxAt(id) :
                LET rest == SelectSeq(transactions, LAMBDA t : t.id # id)
                IN  /\ transactions' = rest
                    /\ RecomputeAfter("delete_stock_transaction", rest, transactions[i])
        /\ UNCHANGED nextTxId
        /\ HoldingFrame

\* A store without uq_user_stock_holding.
HoldingUniqueViolation_Off(hs, u, s) == FALSE

\* uq_user_stock_holding: the store rejects a second row of a pair.
HoldingUniqueViolation(hs, u, s) == SelectHolding(hs, u, s) # {}

create_stock_holding_detail ==
    \E c \in HoldingCreates :
        /\ nextHoldId <= MaxHoldId
        /\ \/ /\ HoldingUniqueViolation(holdings, c.user_id, c.stock_info_id)
              /\ last' = [op |-> "create_stock_holding_detail", ok |-> FALSE]
              /\ UNCHANGED <<holdings, nextHoldId, direct>>
           \/ /\ ~HoldingUniqueViolation(holdings, c.user_id, c.stock_info_id)
              /\ holdings' = holdings \cup
                    {[id |-> nextHoldId, user_id |-> c.user_id, stock_info_id |-> c.stock_info_id,
                      ticker |-> c.ticker, holding_quantity |-> c.holding_quantity,
                      average_buy_price |-> c.average_buy_price,
                      total_buy_amount |-> c.total_buy_amount]}
              /\ nextHoldId' = nextHoldId + 1
              /\ direct' = direct \cup {Pair(c.user_id, c.stock_info_id)}
              /\ last' = [op |-> "create_stock_holding_detail", ok |-> TRUE]
        /\ UNCHANGED <<transactions, nextTxId>>
        /\ HoldingFrame

\* update_stock_holding_detail(holding_id = id, holding_detail_update = u)
update_stock_holding_detail(id, u) ==
        /\ \/ /\ ~\E h \in holdings : h.id = id
              /\ last' = [op |-> "update_stock_holding_detail", ok |-> FALSE]
              /\ UNCHANGED <<holdings, direct>>
           \/ \E h \in holdings :
                /\ h.id = id
                /\ holdings' = (holdings \ {h}) \cup {PatchedHolding(h, u)}
                /\ direct' = direct \cup {Pair(h.user_id, h.stock_info_id)}
                /\ last' = [op |-> "update_stock_holding_detail", ok |-> TRUE]
        /\ UNCHANGED <<transactions, nextTxId, nextHoldId>>
        /\ HoldingFrame

\* delete_stock_holding_detail(holding_id = id)
delete_stock_holding_detail(id) ==
        /\ \/ /\ ~\E h \in holdings : h.id = id
              /\ last' = [op |-> "delete_stock_holding_detail", ok |-> FALSE]
              /\ UNCHANGED <<holdings, direct>>
           \/ \E h \in holdings :
                /\ h.id = id
                /\ holdings' = holdings \ {h}
                /\ direct' = direct \ {Pair(h.user_id, h.stock_info_id)}
                /\ last' = [op |-> "delete_stock_holding_detail", ok |-> TRUE]
        /\ UNCHANGED <<transactions, nextTxId, nextHoldId>>
        /\ HoldingFrame

NextHolding ==
    \/ \E c \in TxCreates : create_stock_transaction(c)
    \/ \E id \in 1..MaxTxId, u \in TxUpdates : update_stock_transaction(id, u)
    \/ \E id \in 1..MaxTxId : delete_stock_transaction(id)
    \/ create_stock_holding_detail
    \/ \E id \in 1..MaxHoldId, u \in HoldingUpdates :
          update_stock_holding_detail(id, u)
    \/ \E id \in 1..MaxHoldId : delete_stock_holding_detail(id)

SpecHolding == InitHolding /\ [][NextHolding]_vars

TransactionOps ==
    {"create_stock_transaction", "update_stock_transaction", "delete_stock_transaction"}

PairLedger(u, s) == SelectTransactions(transactions, u, s)
PairRows(u, s) == SelectHolding(holdings, u, s)

\* A row h holds the net position of the ledger led.
HoldsNetPosition(h, led) ==
    /\ h.holding_quantity = NetQuantity(led)
    /\ h.total_buy_amount = NetAmount(led)

HoldingPairs == {Pair(TargetUser, s) : s \in StockIds}

\* Every row of the pair is the fold of the pair's ledger, whose net quantity
\* is positive.
RowsDerived(u, s) ==
    \A h \in PairRows(u, s) :
        NetQuantity(PairLedger(u, s)) > 0 /\ HoldsNetPosition(h, PairLedger(u, s))

-----------------------------------------------------------------------------
(* StockInfo and StockPrice: get_or_create_stock_info, the price upsert and *)
(* delete_stock_info as functions of the store.  A timestamp is the instant *)
(* it denotes, which is what the comparison of two aware datetimes and the  *)
(* DateTime(timezone=True) column compare.                                  *)

\* The longest batch of records a call is given.
MaxBatch == 2
\* The last StockInfo id a store hands out.
MaxInfoId == 2

Tickers == {"A", "B"}
Times == {1, 2}
Closes == {1, 2}

\* The records df_to_stockbase returns, reduced to the timestamp and one price.
Records == [time : Times, close : Closes]
Batches == BoundedSeqs(Records, MaxBatch)

Elements(q) == {q[i] : i \in 1..Len(q)}
Min(S) == CHOOSE x \in S : \A y \in S : x <= y
Max(S) == CHOOSE x \in S : \A y \in S : x >= y

\* select(StockInfo).where(StockInfo.ticker == ticker)
InfoByTicker(si, ticker) == {r \in si : r.ticker = ticker}
\* select(StockInfo).where(StockInfo.id == stock_info_id)
InfoById(si, id) == {r \in si : r.id = id}

\* StockInfoCreate(**stock_info_data) as the callers build it.
StockInfoData(ticker, name) ==
    [ticker |-> ticker, name |-> name, market |-> "m1", currency |-> "USD"]

\* get_or_create_stock_info that never looks the ticker up.
get_or_create_stock_info_AlwaysCreates(si, nid, ticker, data) ==
    LET row == [id |-> nid, ticker |-> data.ticker, name |-> data.name,
                market |-> data.market, currency |-> data.currency, updated_at |-> 0]
    IN  [stockinfo |-> si \cup {row}, nextInfoId |-> nid + 1, row |-> row]

\* get_or_create_stock_info that writes the supplied metadata to the row found.
get_or_create_stock_info_UpdatesMetadata(si, nid, ticker, data) ==
    LET row == [id |-> nid, ticker |-> data.ticker, name |-> data.name,
                market |-> data.market, currency |-> data.currency, updated_at |-> 0]
        patched(r) == [r EXCEPT !.name = data.name, !.market = data.market,
                                !.currency = data.currency]
    IN  IF InfoByTicker(si, ticker) # {}
        THEN [stockinfo |-> (si \ InfoByTicker(si, ticker))
                                \cup {patched(r) : r \in InfoByTicker(si, ticker)},
              nextInfoId |-> nid,
              row |-> patched(CHOOSE r \in InfoByTicker(si, ticker) : TRUE)]
        ELSE [stockinfo |-> si \cup {row}, nextInfoId |-> nid + 1, row |-> row]

get_or_create_stock_info(si, nid, ticker, data) ==
    IF InfoByTicker(si, ticker) # {}
    THEN [stockinfo |-> si, nextInfoId |-> nid,
          row |-> CHOOSE r \in InfoByTicker(si, ticker) : TRUE]
    ELSE LET row == [id |-> nid, ticker |-> data.ticker, name |-> data.name,
                     market |-> data.market, currency |-> data.currency,
                     updated_at |-> 0]
         IN  [stockinfo |-> si \cup {row}, nextInfoId |-> nid + 1, row |-> row]

\* The existence query over a range that leaves its lower end out.
ExistingTimes_AboveMin(pr, sid, min_time, max_time) ==
    {p.time : p \in {q \in pr : q.stock_info_id = sid /\ q.time > min_time
                                  /\ q.time <= max_time}}

\* select(StockPrice.time) of the stock within [min_time, max_time]
ExistingTimes(pr, sid, min_time, max_time) ==
    {p.time : p \in {q \in pr : q.stock_info_id = sid /\ q.time >= min_time
                                  /\ q.time <= max_time}}

\* A store without uq_stock_price_stock_info_id_time.
PriceUniqueViolation_Off(pr, rows) == FALSE

\* uq_stock_price_stock_info_id_time: the commit of rows is rejected when two
\* of them, or one of them and a stored row, share (stock_info_id, time).
PriceUniqueViolation(pr, rows) ==
    \/ \E i, j \in 1..Len(rows) :
          i < j /\ rows[i].stock_info_id = rows[j].stock_info_id
                /\ rows[i].time = rows[j].time
    \/ \E i \in 1..Len(rows), p \in pr :
          p.stock_info_id = rows[i].stock_info_id /\ p.time = rows[i].time

\* StockPrice(**price_data, stock_info_id=stock_info.id)
NewPrice(sid, record) ==
    [stock_info_id |-> sid, time |-> record.time, close |-> record.close]

\* AddedRows that adds the first record of each timestamp only.
AddedRows_FirstPerTime(sid, records, existing_times) ==
    LET first == {i \in 1..Len(records) :
                     \A j \in 1..(i - 1) : records[j].time # records[i].time}
        kept  == [i \in 1..Len(records) |-> [r |-> records[i], first |-> i \in first]]
        added == SelectSeq(kept, LAMBDA k : k.first /\ k.r.time \notin existing_times)
    IN  [i \in 1..Len(added) |-> NewPrice(sid, added[i].r)]

\* The rows the loop adds to the session, in the order of the records.
AddedRows(sid, records, existing_times) ==
    LET added == SelectSeq(records, LAMBDA r : r.time \notin existing_times)
    IN  [i \in 1..Len(added) |-> NewPrice(sid, added[i])]

\* upsert_stocks_from_dataframe on the records the adapter returned.  The
\* StockInfo it created stays when the commit of the prices is rejected.
upsert_stocks_from_dataframe(si, pr, nid, ticker, name, records) ==
    LET g   == get_or_create_stock_info(si, nid, ticker, StockInfoData(ticker, name))
        sid == g.row.id
        out(prs, raised, ret) ==
            [stockinfo |-> g.stockinfo, nextInfoId |-> g.nextInfoId, prices |-> prs,
             stock_info_id |-> sid, raised |-> raised, ret |-> ret]
    IN  IF records = <<>>
        THEN out(pr, FALSE, 0)
        ELSE LET times == {records[i].time : i \in 1..Len(records)}
                 rows  == AddedRows(sid, records,
                                    ExistingTimes(pr, sid, Min(times), Max(times)))
             IN  IF Len(rows) = 0
                 THEN out(pr, FALSE, 0)
                 ELSE IF PriceUniqueViolation(pr, rows)
                 THEN out(pr, TRUE, 0)
                 ELSE out(pr \cup Elements(rows), FALSE, Len(rows))

-----------------------------------------------------------------------------
(* SpecUpsert: upsert_stocks_from_dataframe as a function of the store and  *)
(* the batch.  Init draws a store and a call; the one action makes the call,*)
(* and makes it once more on the store the first call left.                 *)

\* Price tables that uq_stock_price_stock_info_id_time admits.
PriceTables(ids) ==
    {pr \in SUBSET [stock_info_id : ids, time : Times, close : Closes] :
        \A p, q \in pr : (p.stock_info_id = q.stock_info_id /\ p.time = q.time) => p = q}

InitUpsert ==
    /\ stockinfo \in {{}, {TargetInfo}, HoldingStockInfo}
    /\ prices \in PriceTables({r.id : r \in stockinfo})
    /\ nextInfoId = Cardinality(stockinfo) + 1
    /\ local \in [ticker : Tickers, records : Batches]
    /\ prev = [stockinfo |-> stockinfo, prices |-> prices]
    /\ last = NoCall
    /\ runs = 0
    /\ transactions = <<>>
    /\ holdings = {}
    /\ nextTxId = 1
    /\ nextHoldId = 1
    /\ direct = {}
    /\ pc = <<>>

UpsertCall ==
    /\ runs < 2
    /\ \E r \in {upsert_stocks_from_dataframe(stockinfo, prices, nextInfoId,
                                              local.ticker, "n1", local.records)} :
          /\ stockinfo' = r.stockinfo
          /\ nextInfoId' = r.nextInfoId
          /\ prices' = r.prices
          /\ last' = [op |-> "upsert_stocks_from_dataframe", raised |-> r.raised,
                      ret |-> r.ret, stock_info_id |-> r.stock_info_id]
    /\ prev' = [stockinfo |-> stockinfo, prices |-> prices]
    /\ runs' = runs + 1
    /\ UNCHANGED <<transactions, holdings, nextTxId, nextHoldId, direct, pc, local>>

SpecUpsert == InitUpsert /\ [][UpsertCall]_vars

\* The timestamps stored for the stock in the whole price history pr.
StoredTimes(pr, sid) == {p.time : p \in {q \in pr : q.stock_info_id = sid}}

\* The positions of the batch whose timestamp the history pr does not hold.
NotStored(pr, sid, records) ==
    {i \in 1..Len(records) : records[i].time \notin StoredTimes(pr, sid)}

DistinctTimes(records, I) == \A i, j \in I : records[i].time = records[j].time => i = j

-----------------------------------------------------------------------------
(* SpecPrice: the StockInfo and StockPrice functions called one at a time,  *)
(* in any order, on a store that starts empty.                              *)

\* delete_stock_info that leaves the prices of the stock behind.
delete_stock_info_KeepsPrices(si, pr, id) ==
    IF InfoById(si, id) = {}
    THEN [stockinfo |-> si, prices |-> pr, ret |-> FALSE, prices_deleted |-> 0]
    ELSE [stockinfo |-> si \ InfoById(si, id), prices |-> pr, ret |-> TRUE,
          prices_deleted |-> 0]

\* delete_stock_info; prices_deleted counts the rows its loop deleted.
delete_stock_info(si, pr, id) ==
    IF InfoById(si, id) = {}
    THEN [stockinfo |-> si, prices |-> pr, ret |-> FALSE, prices_deleted |-> 0]
    ELSE [stockinfo |-> si \ InfoById(si, id),
          prices |-> {p \in pr : p.stock_info_id # id},
          ret |-> TRUE,
          prices_deleted |-> Cardinality({p \in pr : p.stock_info_id = id})]

\* get_stock_info: None, or the row with its prices loaded.
get_stock_info(si, pr, id) ==
    IF InfoById(si, id) = {}
    THEN [found |-> FALSE]
    ELSE [found |-> TRUE, info |-> CHOOSE r \in InfoById(si, id) : TRUE,
          prices |-> {p \in pr : p.stock_info_id = id}]

\* get_stock_info_by_ticker: None, or the row with its prices loaded.
get_stock_info_by_ticker(si, pr, ticker) ==
    IF InfoByTicker(si, ticker) = {}
    THEN [found |-> FALSE]
    ELSE [found |-> TRUE, info |-> CHOOSE r \in InfoByTicker(si, ticker) : TRUE,
          prices |-> {p \in pr : \E r \in InfoByTicker(si, ticker) : p.stock_info_id = r.id}]

\* read_stock_info and read_stock_info_by_ticker: the status of the response.
StatusOf(result) == IF result.found THEN 200 ELSE 404

InitPrice ==
    /\ stockinfo = {}
    /\ prices = {}
    /\ nextInfoId = 1
    /\ last = NoCall
    /\ transactions = <<>>
    /\ holdings = {}
    /\ nextTxId = 1
    /\ nextHoldId = 1
    /\ runs = 0
    /\ prev = {}
    /\ direct = {}
    /\ pc = <<>>
    /\ local = <<>>

PriceFrame ==
    UNCHANGED <<transactions, holdings, nextTxId, nextHoldId, runs, prev, direct, pc, local>>

\* POST /stock/info/
create_stock_info ==
    \E ticker \in Tickers, name \in {"n2"} :
        \E r \in {get_or_create_stock_info(stockinfo, nextInfoId, ticker,
                                           StockInfoData(ticker, name))} :
            /\ r.nextInfoId <= MaxInfoId + 1
            /\ stockinfo' = r.stockinfo
            /\ nextInfoId' = r.nextInfoId
            /\ last' = [op |-> "create_stock_info", ticker |-> ticker, name |-> name,
                        stock_info_id |-> r.row.id]
            /\ UNCHANGED prices
            /\ PriceFrame

upsert_prices ==
    \E ticker \in Tickers, records \in Batches :
        \E r \in {upsert_stocks_from_dataframe(stockinfo, prices, nextInfoId,
                                               ticker, "n1", records)} :
            /\ r.nextInfoId <= MaxInfoId + 1
            /\ stockinfo' = r.stockinfo
            /\ nextInfoId' = r.nextInfoId
            /\ prices' = r.prices
            /\ last' = [op |-> "upsert_stocks_from_dataframe", ticker |-> ticker,
                        name |-> "n1", stock_info_id |-> r.stock_info_id,
                        raised |-> r.raised, ret |-> r.ret]
            /\ PriceFrame

delete_stock_info_call ==
    \E id \in 1..MaxInfoId :
        \E r \in {delete_stock_info(stockinfo, prices, id)} :
            /\ stockinfo' = r.stockinfo
            /\ prices' = r.prices
            /\ last' = [op |-> "delete_stock_info", stock_info_id |-> id,
                        ret |-> r.ret, prices_deleted |-> r.prices_deleted]
            /\ UNCHANGED nextInfoId
            /\ PriceFrame

NextPrice ==
    \/ create_stock_info
    \/ upsert_prices
    \/ delete_stock_info_call

SpecPrice == InitPrice /\ [][NextPrice]_vars

\* C7: after any sequence of calls no two stored StockPrice rows share
\* (stock_info_id, time).
C7_PriceKeyUnique ==
    \A p, q \in prices :
        (p.stock_info_id = q.stock_info_id /\ p.time = q.time) => p = q

\* An upsert has inserted one row, at a timestamp the other stock holds too
\* with another price.
C7_Witness ==
    /\ last.op = "upsert_stocks_from_dataframe" /\ ~last.raised /\ last.ret = 1
    /\ \E p, q \in prices : p.time = q.time /\ p.stock_info_id # q.stock_info_id
                            /\ p.close # q.close

\* C8: a delete_stock_info that returns True found the row, leaves no price
\* of that stock and no row of that id, makes the lookups by its id and by
\* its ticker answer 404, and leaves the rows and prices of every other
\* stock as they were.
C8_DeleteRemovesStockAndPrices ==
    [][(last'.op = "delete_stock_info" /\ last'.ret) =>
          \A id \in {last'.stock_info_id} :
              /\ InfoById(stockinfo, id) # {}
              /\ {p \in prices' : p.stock_info_id = id} = {}
              /\ InfoById(stockinfo', id) = {}
              /\ StatusOf(get_stock_info(stockinfo', prices', id)) = 404
              /\ \A r \in InfoById(stockinfo, id) :
                    StatusOf(get_stock_info_by_ticker(stockinfo', prices', r.ticker)) = 404
              /\ stockinfo' = {r \in stockinfo : r.id # id}
              /\ prices' = {p \in prices : p.stock_info_id # id}]_vars

\* A stock with two prices has been deleted and the other stock keeps its
\* row and its prices.
C8_Witness ==
    /\ last.op = "delete_stock_info" /\ last.ret /\ last.prices_deleted = 2
    /\ Cardinality(stockinfo) = 1
    /\ prices # {}

GetOrCreateOps == {"create_stock_info", "upsert_stocks_from_dataframe"}

\* C9: a call of get_or_create_stock_info for a ticker the store holds returns
\* the id of the stored row and creates nothing; a call for a ticker the store
\* does not hold creates one row of that ticker under an id no row has and
\* returns it; and the store never holds two rows of one ticker.
C9_GetOrCreateIdempotent ==
    /\ [][last'.op \in GetOrCreateOps =>
            IF InfoByTicker(stockinfo, last'.ticker) # {}
            THEN /\ stockinfo' = stockinfo
                 /\ \A r \in InfoByTicker(stockinfo, last'.ticker) :
                       r.id = last'.stock_info_id
            ELSE /\ InfoById(stockinfo, last'.stock_info_id) = {}
                 /\ \E row \in stockinfo' :
                       /\ row.id = last'.stock_info_id
                       /\ row.ticker = last'.ticker
                       /\ row \notin stockinfo
                       /\ stockinfo' = stockinfo \cup {row}]_vars
    /\ [](\A r1, r2 \in stockinfo : r1.ticker = r2.ticker => r1 = r2)

\* A call for a stored ticker has returned the stored row, which keeps the
\* name it was created with, while another ticker is stored as well.
C9_Witness ==
    /\ last.op = "create_stock_info"
    /\ Cardinality(stockinfo) = 2
    /\ \E r \in stockinfo : r.ticker = last.ticker /\ r.id = last.stock_info_id
                            /\ r.name # last.name

-----------------------------------------------------------------------------
(* SpecRace: two requests of create_stock_transaction for one pair, each on *)
(* its own session, interleaved at the statements they send to the store,   *)
(* together with create_stock_holding_detail.  Every statement sees what    *)
(* has been committed when it runs.                                         *)

Procs == {1, 2}

\* The bodies of the racing requests.
RaceCreates ==
    { [user_id |-> TargetUser, stock_info_id |-> TargetStock, ticker |-> TargetTicker,
       transaction_type |-> k[1], quantity |-> 1, total_amount |-> ToFloat(k[2])] :
      k \in {<<BUY, 10>>, <<SELL, 30>>} }

InitRace ==
    /\ stockinfo = HoldingStockInfo
    /\ prices = {}
    /\ transactions = <<>>
    /\ holdings = {}
    /\ nextInfoId = 3
    /\ nextTxId = 1
    /\ nextHoldId = 1
    /\ last = NoCall
    /\ runs = 0
    /\ prev = {}
    /\ direct = {}
    /\ pc = [p \in Procs |-> "idle"]
    /\ local = [p \in Procs |-> [error |-> "none"]]

RaceFrame == UNCHANGED <<stockinfo, prices, nextInfoId, last, runs, prev, direct>>

\* session.add(db_transaction); commit; refresh
CommitTransaction(p) ==
    /\ pc[p] \in {"idle", "done", "raised"}
    /\ nextTxId <= MaxTxId
    /\ \E c \in RaceCreates :
          /\ transactions' = Append(transactions,
                [id |-> nextTxId, user_id |-> c.user_id, stock_info_id |-> c.stock_info_id,
                 ticker |-> c.ticker, transaction_type |-> c.transaction_type,
                 quantity |-> c.quantity, total_amount |-> c.total_amount])
          /\ local' = [local EXCEPT ![p] =
                [error |-> "none", user_id |-> c.user_id,
                 stock_info_id |-> c.stock_info_id, ticker |-> c.ticker]]
    /\ nextTxId' = nextTxId + 1
    /\ pc' = [pc EXCEPT ![p] = "select_transactions"]
    /\ UNCHANGED <<holdings, nextHoldId>>
    /\ RaceFrame

\* 1. and 2.: the select of the pair's transactions and the fold over them.
SelectLedger(p) ==
    /\ pc[p] = "select_transactions"
    /\ local' = [local EXCEPT ![p] =
          [error |-> "none", user_id |-> local[p].user_id,
           stock_info_id |-> local[p].stock_info_id, ticker |-> local[p].ticker,
           fold |-> FoldTransactions(SelectTransactions(transactions, local[p].user_id,
                                                        local[p].stock_info_id))]]
    /\ pc' = [pc EXCEPT ![p] = "select_holding"]
    /\ UNCHANGED <<transactions, holdings, nextTxId, nextHoldId>>
    /\ RaceFrame

\* 3.: the select of the pair's row; scalar_one_or_none raises on two rows.
SelectHoldingRow(p) ==
    /\ pc[p] = "select_holding"
    /\ \E found \in {SelectHolding(holdings, local[p].user_id, local[p].stock_info_id)} :
          IF Cardinality(found) > 1
          THEN /\ local' = [local EXCEPT ![p] = [error |-> "MultipleResultsFound"]]
               /\ pc' = [pc EXCEPT ![p] = "raised"]
          ELSE /\ local' = [local EXCEPT ![p] =
                     [error |-> "none", user_id |-> local[p].user_id,
                      stock_info_id |-> local[p].stock_info_id,
                      ticker |-> local[p].ticker, fold |-> local[p].fold,
                      found |-> found]]
               /\ pc' = [pc EXCEPT ![p] = "write"]
    /\ UNCHANGED <<transactions, holdings, nextTxId, nextHoldId>>
    /\ RaceFrame

\* A flush that writes nothing.
FlushedUpdate_WritesNothing(cur, h, f) == cur

\* The UPDATE the session flushes for the row h it loaded: the columns whose
\* value the recomputation changed, written to the stored row cur.
FlushedUpdate(cur, h, f) ==
    [cur EXCEPT
        !.holding_quantity = IF h.holding_quantity # f.holding_quantity
                             THEN f.holding_quantity ELSE @,
        !.average_buy_price = IF h.average_buy_price # AverageBuyPrice(f)
                              THEN AverageBuyPrice(f) ELSE @,
        !.total_buy_amount = IF h.total_buy_amount # f.total_buy_amount
                             THEN f.total_buy_amount ELSE @]

Finish(p, error) ==
    /\ local' = [local EXCEPT ![p] = [error |-> error]]
    /\ pc' = [pc EXCEPT ![p] = IF error = "none" THEN "done" ELSE "raised"]

\* The delete, update or insert the function ends with, and its commit.
WriteHolding(p) ==
    /\ pc[p] = "write"
    /\ LET f == local[p].fold
           found == local[p].found
           stored(h) == {cur \in holdings : cur.id = h.id}
       IN  IF f.holding_quantity <= 0
           THEN \* a DELETE that matches no row is not an error
                /\ holdings' = holdings \ UNION {stored(h) : h \in found}
                /\ UNCHANGED nextHoldId
                /\ Finish(p, "none")
           ELSE IF found # {}
           THEN \E h \in found :
                   IF stored(h) = {}
                   THEN /\ UNCHANGED <<holdings, nextHoldId>>
                        /\ Finish(p, "StaleDataError")
                   ELSE /\ holdings' = (holdings \ stored(h)) \cup
                              {FlushedUpdate(cur, h, f) : cur \in stored(h)}
                        /\ UNCHANGED nextHoldId
                        /\ Finish(p, "none")
           ELSE IF HoldingUniqueViolation(holdings, local[p].user_id, local[p].stock_info_id)
           THEN /\ UNCHANGED <<holdings, nextHoldId>>
                /\ Finish(p, "IntegrityError")
           ELSE /\ nextHoldId <= MaxHoldId
                /\ holdings' = holdings \cup
                      {NewHoldingDetail(nextHoldId, local[p].user_id,
                                        local[p].stock_info_id, local[p].ticker, f)}
                /\ nextHoldId' = nextHoldId + 1
                /\ Finish(p, "none")
    /\ UNCHANGED <<transactions, nextTxId>>
    /\ RaceFrame

NextRace ==
    \/ \E p \in Procs : CommitTransaction(p)
    \/ \E p \in Procs : SelectLedger(p)
    \/ \E p \in Procs : SelectHoldingRow(p)
    \/ \E p \in Procs : WriteHolding(p)
    \/ create_stock_holding_detail

SpecRace == InitRace /\ [][NextRace]_vars

\* C10: in every state, after interleaved recomputations and after direct
\* creation, a pair has at most one StockHoldingDetail row.
C10_OneHoldingRowPerPair ==
    \A p \in HoldingPairs : Cardinality(PairRows(p[1], p[2])) <= 1

\* Two requests raced to insert the row of the pair: one has inserted it and
\* the insert of the other has been rejected.
C10_Witness ==
    /\ \E p, q \in Procs :
          /\ pc[p] = "done" /\ pc[q] = "raised"
          /\ local[q].error = "IntegrityError"
    /\ direct = {}
    /\ Cardinality(PairRows(TargetUser, TargetStock)) = 1

-----------------------------------------------------------------------------
(***************************************************************************)
(* The tabular adapter, services/yf_adapter.py.                            *)
(*                                                                         *)
(* Python values are tagged records, so that None, a float, a float NaN    *)
(* and an int are four different things.  Floats are the scaled floats     *)
(* defined above.                                                          *)
(***************************************************************************)
None == [kind |-> "None"]
NaN == [kind |-> "nan"]
PyFloat(x) == [kind |-> "float", value |-> x]
PyInt(n) == [kind |-> "int", value |-> n]

\* a / b on floats (b # 0).
FTrueDiv(a, b) ==
    IF b < 0
    THEN RoundQuot((-a) * Pow2(FracBits), -b)
    ELSE RoundQuot(a * Pow2(FracBits), b)

(***************************************************************************)
(* Timestamps count hours.  A naive timestamp [tz |-> "naive", wall] is a  *)
(* wall-clock reading; an aware one [tz, instant] is an instant on the UTC *)
(* scale together with a zone.  The zones drawn have a fixed offset.       *)
(***************************************************************************)
Zones == {"UTC", "Asia/Seoul"}
UtcOffset(tz) == IF tz = "Asia/Seoul" THEN 9 ELSE 0

tz_localize_AsUtc(ts, tz) == [tz |-> tz, instant |-> ts.wall]

\* DatetimeIndex.tz_localize: the wall-clock reading is kept and read in tz.
tz_localize(ts, tz) == [tz |-> tz, instant |-> ts.wall - UtcOffset(tz)]
\* DatetimeIndex.tz_convert: the instant is kept.
tz_convert(ts, tz) == [tz |-> tz, instant |-> ts.instant]

(***************************************************************************)
(* A DataFrame is [names, columns, index, cells]: the names of the column  *)
(* levels (<<>> for plain columns, two names for a MultiIndex), the set of *)
(* column keys (one label per level), the row labels, and one sequence of  *)
(* cells per column.  All the labels of one index are naive, or all are    *)
(* aware in one zone.                                                      *)
(***************************************************************************)

\* A slice that takes the ticker from the second level wherever the level
\* named Ticker is.
xs_SecondLevel(df, ticker) ==
    LET keys == {k \in df.columns : k[2] = ticker}
    IN  IF keys = {}
        THEN [raised |-> TRUE]
        ELSE [raised |-> FALSE,
              df |-> [names   |-> <<df.names[1]>>,
                      columns |-> {<<k[1]>> : k \in keys},
                      index   |-> df.index,
                      cells   |-> [c \in {<<k[1]>> : k \in keys} |->
                                     df.cells[CHOOSE k \in keys : k[1] = c[1]]]]]

\* df.xs(ticker, level="Ticker", axis=1): the columns whose Ticker label is
\* ticker, with that level dropped; KeyError when there is none.
xs(df, ticker) ==
    LET p    == CHOOSE l \in 1..Len(df.names) : df.names[l] = "Ticker"
        q    == 3 - p
        keys == {k \in df.columns : k[p] = ticker}
    IN  IF keys = {}
        THEN [raised |-> TRUE]
        ELSE [raised |-> FALSE,
              df |-> [names   |-> <<df.names[q]>>,
                      columns |-> {<<k[q]>> : k \in keys},
                      index   |-> df.index,
                      cells   |-> [c \in {<<k[q]>> : k \in keys} |->
                                     df.cells[CHOOSE k \in keys : k[q] = c[1]]]]]

\* if isinstance(df.columns, pd.MultiIndex): if "Ticker" in names: try xs
\* except: pass
SliceTicker(df, ticker) ==
    IF Len(df.names) = 2 /\ \E l \in 1..Len(df.names) : df.names[l] = "Ticker"
    THEN LET r == xs(df, ticker) IN IF r.raised THEN df ELSE r.df
    ELSE df

\* tz_localize when df.index.tz is None, tz_convert otherwise.
NormalizeIndex(df, timezone) ==
    [df EXCEPT !.index =
        [i \in 1..Len(df.index) |->
            IF df.index[i].tz = "naive"
            THEN tz_localize(df.index[i], timezone)
            ELSE tz_convert(df.index[i], timezone)]]

column_map(label) ==
    CASE label = "Open"   -> "open"
      [] label = "High"   -> "high"
      [] label = "Low"    -> "low"
      [] label = "Close"  -> "close"
      [] label = "Volume" -> "volume"
      [] OTHER            -> label

\* df.rename(columns=...) on plain columns.  A frame whose columns are still
\* grouped here was not sliced; no frame drawn below is in that case.
RenameColumns(df) ==
    IF Len(df.names) = 2
    THEN df
    ELSE [df EXCEPT
            !.columns = {<<column_map(k[1])>> : k \in df.columns},
            !.cells   = [c \in {<<column_map(k[1])>> : k \in df.columns} |->
                           df.cells[CHOOSE k \in df.columns :
                                        column_map(k[1]) = c[1]]]]

\* float(row[label]) if label in row and pd.notna(row[label]) else None
FloatOrNone(df, i, label) ==
    IF <<label>> \in df.columns /\ df.cells[<<label>>][i] # NaN
    THEN PyFloat(df.cells[<<label>>][i].value)
    ELSE None

\* The StockBase model the adapter imports is not part of the sources; its
\* constructor is taken to keep the fourteen fields it is given.
StockBase(fields) ==
    [f \in {"ticker", "name", "market", "currency", "time", "open", "high",
            "low", "close", "previous_close", "change", "change_percent",
            "adjusted_close", "volume"} |-> fields[f]]

iterrows_DropsLast(df) == [i \in 1..(Len(df.index) - 1) |-> i]

\* df.iterrows(): the row positions, first to last.
iterrows(df) == [i \in 1..Len(df.index) |-> i]

\* adjusted_close_val: read only when auto_adjust is off and the frame has
\* an Adj Close column.
AdjustedCloseVal(df, i, auto_adjust) ==
    IF ~auto_adjust /\ <<"Adj Close">> \in df.columns
    THEN FloatOrNone(df, i, "Adj Close")
    ELSE None

AdjustedClose_AlwaysClose(close_val, adjusted_close_val, auto_adjust) ==
    close_val

\* adjusted_close=(close_val if auto_adjust else adjusted_close_val)
AdjustedClose(close_val, adjusted_close_val, auto_adjust) ==
    IF auto_adjust THEN close_val ELSE adjusted_close_val

VolumeVal_AbsentWhenMissing(df, i) ==
    IF <<"volume">> \in df.columns /\ df.cells[<<"volume">>][i] # NaN
    THEN PyInt(df.cells[<<"volume">>][i].value \div Pow2(FracBits))
    ELSE None

\* volume_val = 0, replaced by int(float(row["volume"])) when the row has a
\* volume that is not NaN.  Volumes are not negative, so int() is the floor.
VolumeVal(df, i) ==
    IF <<"volume">> \in df.columns /\ df.cells[<<"volume">>][i] # NaN
    THEN PyInt(df.cells[<<"volume">>][i].value \div Pow2(FracBits))
    ELSE PyInt(0)

Change_Reversed(previous_close, close_val) ==
    IF previous_close # None /\ close_val # None
    THEN PyFloat(FSub(previous_close.value, close_val.value))
    ELSE None

Change(previous_close, close_val) ==
    IF previous_close # None /\ close_val # None
    THEN PyFloat(FSub(close_val.value, previous_close.value))
    ELSE None

\* (change / previous_close) * 100 if previous_close != 0
ChangePercent(previous_close, close_val) ==
    IF previous_close # None /\ close_val # None /\ previous_close.value # 0
    THEN PyFloat(RoundQuot(FTrueDiv(Change(previous_close, close_val).value,
                                    previous_close.value) * 100, 1))
    ELSE None

NextPreviousClose_Resets(close_val, previous_close) == close_val

\* previous_close = close_val if close_val is not None else previous_close
NextPreviousClose(close_val, previous_close) ==
    IF close_val # None THEN close_val ELSE previous_close

\* The loop over the rows: one StockBase per row, previous_close carried
\* from pass to pass.
RECURSIVE RecordsFrom(_, _, _, _, _)
RecordsFrom(df, args, rows, n, previous_close) ==
    IF n > Len(rows)
    THEN <<>>
    ELSE LET i         == rows[n]
             close_val == FloatOrNone(df, i, "close")
             record    ==
                 StockBase([ticker |-> args.ticker, name |-> args.name,
                            market |-> args.market, currency |-> args.currency,
                            time |-> df.index[i],
                            open |-> FloatOrNone(df, i, "open"),
                            high |-> FloatOrNone(df, i, "high"),
                            low |-> FloatOrNone(df, i, "low"),
                            close |-> close_val,
                            previous_close |-> previous_close,
                            change |-> Change(previous_close, close_val),
                            change_percent |->
                                ChangePercent(previous_close, close_val),
                            adjusted_close |->
                                AdjustedClose(close_val,
                                    AdjustedCloseVal(df, i, args.auto_adjust),
                                    args.auto_adjust),
                            volume |-> VolumeVal(df, i)])
         IN  <<record>> \o RecordsFrom(df, args, rows, n + 1,
                                NextPreviousClose(close_val, previous_close))

\* df_to_stockbase(df, ticker, name, market, currency, auto_adjust, timezone),
\* the arguments after df gathered in args.
df_to_stockbase(df, args) ==
    LET sliced  == SliceTicker(df, args.ticker)
        zoned   == NormalizeIndex(sliced, args.timezone)
        renamed == RenameColumns(zoned)
    IN  RecordsFrom(renamed, args, iterrows(renamed), 1, None)

-----------------------------------------------------------------------------
(* SpecAdapter: df_to_stockbase as a function of the frame and its         *)
(* arguments.  Init draws a frame as the provider shapes it (plain columns, *)
(* or columns grouped by field and ticker in either nesting with the level  *)
(* names Price and Ticker; a naive index or an index aware in some zone;    *)
(* cells holding a number or NaN; optional columns present or missing) and  *)
(* the arguments; the one action makes the call.                            *)

MaxRows == 3

Bar(open, high, low, close, adj_close, volume) ==
    ("Open" :> open) @@ ("High" :> high) @@ ("Low" :> low) @@
    ("Close" :> close) @@ ("Adj Close" :> adj_close) @@ ("Volume" :> volume)

Cell(x) == PyFloat(ToFloat(x))

\* Two full bars one unit of close apart, a bar without a close, a bar of
\* zeros without a volume, and a bar that has only a close and an empty
\* volume.  The prices are small so that every quotient change /
\* previous_close is at least one unit of the scaled floats.
RowKinds ==
    {Bar(Cell(4), Cell(6), Cell(2), Cell(4), Cell(3), Cell(1000)),
     Bar(Cell(5), Cell(7), Cell(3), Cell(5), Cell(4), Cell(2000)),
     Bar(Cell(6), Cell(8), Cell(4), NaN, Cell(5), Cell(3000)),
     Bar(Cell(0), Cell(0), Cell(0), Cell(0), Cell(0), NaN),
     Bar(NaN, NaN, NaN, Cell(8), NaN, Cell(0))}

\* The frame of the bars under the column labels: plain columns for the one
\* ticker when names is <<>>, otherwise columns for both tickers keyed in
\* the order of names, the other ticker holding bars of its own.  Daily
\* bars: row i is labelled with hour 24 * i, read on the wall clock of a
\* naive index and as an instant of an aware one.
Frame(bars, names, tz, labels) ==
    LET tickers  == IF names = <<>> THEN {TargetTicker} ELSE Tickers
        key(l, t) == IF names = <<>> THEN <<l>>
                     ELSE IF names[1] = "Ticker" THEN <<t, l>> ELSE <<l, t>>
        other    == Bar(Cell(200), Cell(210), Cell(190), Cell(201), Cell(199),
                        Cell(5000))
    IN  [names   |-> names,
         columns |-> {key(l, t) : l \in labels, t \in tickers},
         index   |-> [i \in 1..Len(bars) |->
                        IF tz = "naive"
                        THEN [tz |-> "naive", wall |-> 24 * i]
                        ELSE [tz |-> tz, instant |-> 24 * i]],
         cells   |-> [k \in {key(l, t) : l \in labels, t \in tickers} |->
                        LET l == CHOOSE l \in labels : \E t \in tickers : key(l, t) = k
                            t == CHOOSE t \in tickers : key(l, t) = k
                        IN  [i \in 1..Len(bars) |->
                                IF t = TargetTicker THEN bars[i][l] ELSE other[l]]]]

InitAdapter ==
    /\ local \in
         [bars : BoundedSeqs(RowKinds, MaxRows),
          names : {<<>>, <<"Price", "Ticker">>, <<"Ticker", "Price">>},
          tz : {"naive"} \cup Zones,
          labels : {{"Open", "High", "Low", "Close", "Adj Close", "Volume"},
                    {"Open", "High", "Low", "Close", "Volume"},
                    {"Open", "Close"}},
          args : [ticker : {TargetTicker}, name : {"n1"}, market : {"m1"},
                  currency : {"USD"}, auto_adjust : BOOLEAN, timezone : Zones]]
    /\ last = NoCall
    /\ runs = 0
    /\ prev = <<>>
    /\ stockinfo = {}
    /\ prices = {}
    /\ transactions = <<>>
    /\ holdings = {}
    /\ nextInfoId = 1
    /\ nextTxId = 1
    /\ nextHoldId = 1
    /\ direct = {}
    /\ pc = <<>>

InputFrame == Frame(local.bars, local.names, local.tz, local.labels)

AdapterCall ==
    /\ runs = 0
    /\ last' = [op |-> "df_to_stockbase",
                records |-> df_to_stockbase(InputFrame, local.args)]
    /\ runs' = 1
    /\ UNCHANGED <<stockinfo, prices, transactions, holdings, nextInfoId,
                   nextTxId, nextHoldId, direct, pc, local, prev>>

SpecAdapter == InitAdapter /\ [][AdapterCall]_vars

Converted == last # NoCall /\ last.op = "df_to_stockbase"
OutRecords == last.records
InputBars == local.bars

\* The wall-clock reading of a timestamp.
WallClock(ts) ==
    IF ts.tz = "naive" THEN ts.wall ELSE ts.instant + UtcOffset(ts.tz)

\* The instant a row label denotes once the adapter has normalized it: the
\* label's own instant when it is aware, its wall-clock reading taken in the
\* requested zone when it is naive.
LabelInstant(ts, timezone) ==
    IF ts.tz = "naive" THEN ts.wall - UtcOffset(timezone) ELSE ts.instant

\* The value a record holds for a cell of the frame.
Held(cell) == IF cell = NaN THEN None ELSE PyFloat(cell.value)

\* C11: df_to_stockbase returns exactly one record per row of the frame, in
\* the order of the rows, the i-th record carrying the i-th row's timestamp
\* and close; a frame without rows gives the empty sequence.
C11_OneRecordPerRowInOrder ==
    Converted =>
        /\ Len(OutRecords) = Len(InputBars)
        /\ InputBars = <<>> => OutRecords = <<>>
        /\ \A i \in 1..Len(InputBars) :
              /\ OutRecords[i].time.instant =
                     LabelInstant(InputFrame.index[i], local.args.timezone)
              /\ OutRecords[i].close = Held(InputBars[i]["Close"])

C11_Witness ==
    /\ Converted
    /\ Len(InputBars) = 3
    /\ local.names # <<>>
    /\ \A i, j \in 1..3 : i # j => OutRecords[i].close # OutRecords[j].close

\* C12: in every record whose previous_close is present and not zero, change
\* is close - previous_close and change_percent is change / previous_close
\* * 100 (both absent when the row has no close to subtract from); the first
\* record has neither, and change_percent is absent whenever previous_close
\* is absent or zero.
C12_ChangeAndChangePercent ==
    Converted =>
        \A i \in 1..Len(OutRecords) :
            LET r == OutRecords[i]
            IN  /\ (r.previous_close # None /\ r.previous_close.value # 0) =>
                       IF r.close # None
                       THEN /\ r.change =
                                   PyFloat(FSub(r.close.value, r.previous_close.value))
                            /\ r.change_percent =
                                   PyFloat(RoundQuot(FTrueDiv(r.change.value,
                                                r.previous_close.value) * 100, 1))
                       ELSE r.change = None /\ r.change_percent = None
                /\ i = 1 => r.change = None /\ r.change_percent = None
                /\ r.previous_close = None => r.change = None
                /\ (r.previous_close = None \/ r.previous_close.value = 0) =>
                       r.change_percent = None

C12_Witness ==
    /\ Converted
    /\ \E i \in 1..Len(OutRecords) :
          /\ OutRecords[i].previous_close = Cell(4)
          /\ OutRecords[i].close = Cell(5)
          /\ OutRecords[i].change = Cell(1)
          /\ OutRecords[i].change_percent = Cell(25)
    /\ \E j \in 1..Len(OutRecords) :
          /\ OutRecords[j].previous_close = Cell(0)
          /\ OutRecords[j].close = Cell(4)
          /\ OutRecords[j].change = Cell(4)
          /\ OutRecords[j].change_percent = None

\* C13 as stated: previous_close of every record after the first is the
\* close of the row just before it, absent when that row has no close.
C13_PreviousCloseOfPrecedingRow ==
    Converted =>
        \A i \in 1..Len(OutRecords) :
            OutRecords[i].previous_close =
                IF i = 1 THEN None ELSE Held(InputBars[i - 1]["Close"])

\* The rows before row i that have a close.
ClosedBefore(i) == {j \in 1..(i - 1) : InputBars[j]["Close"] # NaN}

\* C13: previous_close of every record is the close of the nearest earlier
\* row that has one, and absent when no earlier row has a close; so it is
\* absent in the first record, and it is the preceding row's close whenever
\* that row has a close.
C13_PreviousCloseCarriedForward ==
    Converted =>
        \A i \in 1..Len(OutRecords) :
            /\ OutRecords[i].previous_close =
                   IF ClosedBefore(i) = {}
                   THEN None
                   ELSE Held(InputBars[Max(ClosedBefore(i))]["Close"])
            /\ i = 1 => OutRecords[i].previous_close = None
            /\ (i > 1 /\ InputBars[i - 1]["Close"] # NaN) =>
                   OutRecords[i].previous_close = Held(InputBars[i - 1]["Close"])

C13_Witness ==
    /\ Converted
    /\ Len(OutRecords) = 3
    /\ OutRecords[1].close = Cell(4)
    /\ OutRecords[2].close = None
    /\ OutRecords[2].previous_close = Cell(4)
    /\ OutRecords[3].previous_close = Cell(4)
    /\ OutRecords[3].close = Cell(5)

\* C14 as stated: a naive label is read as an instant of UTC, an aware label
\* keeps its instant, and the record's time is that instant in the requested
\* zone.
C14_NaiveReadAsUtc ==
    Converted =>
        \A i \in 1..Len(OutRecords) :
            /\ OutRecords[i].time.tz = local.args.timezone
            /\ OutRecords[i].time.instant =
                   IF InputFrame.index[i].tz = "naive"
                   THEN InputFrame.index[i].wall
                   ELSE InputFrame.index[i].instant

\* C14: every record's time is in the requested zone.  An aware label is
\* converted: the record's time is the same instant.  A naive label is
\* localized: the record's time has the same wall-clock reading in the
\* requested zone, so its instant is the reading minus the zone's offset,
\* which is the reading taken as UTC only for a zone at offset zero.
C14_AwareConvertedNaiveLocalized ==
    Converted =>
        \A i \in 1..Len(OutRecords) :
            LET label == InputFrame.index[i]
                time  == OutRecords[i].time
            IN  /\ time.tz = local.args.timezone
                /\ label.tz # "naive" => time.instant = label.instant
                /\ label.tz = "naive" =>
                       /\ WallClock(time) = label.wall
                       /\ time.instant = label.wall - UtcOffset(local.args.timezone)
                       /\ (time.instant = label.wall) <=>
                              (UtcOffset(local.args.timezone) = 0)

C14_Witness ==
    /\ Converted
    /\ Len(OutRecords) >= 1
    /\ local.tz = "naive"
    /\ local.args.timezone = "Asia/Seoul"
    /\ OutRecords[1].time.instant # InputFrame.index[1].wall
    /\ WallClock(OutRecords[1].time) = InputFrame.index[1].wall

\* C15: with auto_adjust true every record's adjusted_close is its close;
\* with auto_adjust false it is the row's value in the Adj Close column when
\* the frame has that column (absent where the cell is NaN), and absent when
\* the frame has no such column.
C15_AdjustedClose ==
    Converted =>
        \A i \in 1..Len(OutRecords) :
            OutRecords[i].adjusted_close =
                IF local.args.auto_adjust
                THEN OutRecords[i].close
                ELSE IF "Adj Close" \in local.labels
                     THEN Held(InputBars[i]["Adj Close"])
                     ELSE None

C15_Witness ==
    /\ Converted
    /\ ~local.args.auto_adjust
    /\ "Adj Close" \in local.labels
    /\ local.names = <<"Price", "Ticker">>
    /\ Len(OutRecords) = 2
    /\ OutRecords[1].adjusted_close = Cell(3)
    /\ OutRecords[1].close = Cell(4)
    /\ OutRecords[2].adjusted_close = None
    /\ OutRecords[2].close = Cell(8)

\* The cell of row i under a label is missing or NaN.
NoValue(i, label) == label \notin local.labels \/ InputBars[i][label] = NaN

RecordFields ==
    {"open", "high", "low", "close", "previous_close", "change",
     "change_percent", "adjusted_close", "volume"}

\* Open, High, Low, Close cells without a value are absent in the record, so
\* is adjusted_close when the cell it is read from has no value, and no field
\* of any record is NaN.
PricesAbsentNeverNaN ==
    \A i \in 1..Len(OutRecords) :
        /\ NoValue(i, "Open") => OutRecords[i].open = None
        /\ NoValue(i, "High") => OutRecords[i].high = None
        /\ NoValue(i, "Low") => OutRecords[i].low = None
        /\ NoValue(i, "Close") => OutRecords[i].close = None
        /\ NoValue(i, IF local.args.auto_adjust THEN "Close" ELSE "Adj Close") =>
               OutRecords[i].adjusted_close = None
        /\ \A f \in RecordFields : OutRecords[i][f] # NaN

\* C16 as stated: every cell without a value, the volume included, is absent
\* in the record, and no field is NaN.
C16_EveryMissingCellAbsent ==
    Converted =>
        /\ PricesAbsentNeverNaN
        /\ \A i \in 1..Len(OutRecords) :
              NoValue(i, "Volume") => OutRecords[i].volume = None

\* C16: every open, high, low, close or adjusted-close cell without a value
\* is absent in the record; a volume cell without a value becomes the
\* integer 0; no field of any record, derived fields included, is NaN.
C16_MissingPricesAbsentVolumeZero ==
    Converted =>
        /\ PricesAbsentNeverNaN
        /\ \A i \in 1..Len(OutRecords) :
              NoValue(i, "Volume") => OutRecords[i].volume = PyInt(0)

C16_Witness ==
    /\ Converted
    /\ "Volume" \in local.labels
    /\ Len(OutRecords) = 2
    /\ InputBars[1]["Volume"] = NaN
    /\ OutRecords[1].volume = PyInt(0)
    /\ InputBars[2]["Open"] = NaN
    /\ OutRecords[2].open = None
    /\ OutRecords[2].change # None

\* The frame of the same rows with plain columns for the one ticker.
UngroupedFrame == Frame(local.bars, <<>>, local.tz, local.labels)

-----------------------------------------------------------------------------
(* SpecInfoUpdate: update_stock_info as a function of the store, the id, the *)
(* StockInfoUpdate body and the clock.  Init draws them; the one action      *)
(* makes the call.                                                           *)

\* StockInfoUpdate bodies: each of name, market, currency unset or set.
StockInfoUpdates ==
    [name : {Unset, <<"n3">>}, market : {Unset, <<"m3">>},
     currency : {Unset, <<"KRW">>}]

\* datetime.now(timezone.utc) at the call; the stored rows were written at 0.
Clock == {1, 2}

update_stock_info_SetsEveryField(si, id, stock_update, now) ==
    IF InfoById(si, id) = {}
    THEN [stockinfo |-> si, found |-> FALSE]
    ELSE LET old == CHOOSE r \in InfoById(si, id) : TRUE
             new == [old EXCEPT
                       !.name = IF IsSet(stock_update.name)
                                THEN stock_update.name[1] ELSE "",
                       !.market = IF IsSet(stock_update.market)
                                  THEN stock_update.market[1] ELSE "",
                       !.currency = IF IsSet(stock_update.currency)
                                    THEN stock_update.currency[1] ELSE "",
                       !.updated_at = now]
         IN  [stockinfo |-> (si \ {old}) \cup {new}, found |-> TRUE, info |-> new]

\* update_stock_info: None when no row has the id; otherwise the fields the
\* body sets are assigned, updated_at is set to the clock and the row is
\* committed.
update_stock_info(si, id, stock_update, now) ==
    IF InfoById(si, id) = {}
    THEN [stockinfo |-> si, found |-> FALSE]
    ELSE LET old == CHOOSE r \in InfoById(si, id) : TRUE
             new == [old EXCEPT
                       !.name = IF IsSet(stock_update.name)
                                THEN stock_update.name[1] ELSE @,
                       !.market = IF IsSet(stock_update.market)
                                  THEN stock_update.market[1] ELSE @,
                       !.currency = IF IsSet(stock_update.currency)
                                    THEN stock_update.currency[1] ELSE @,
                       !.updated_at = now]
         IN  [stockinfo |-> (si \ {old}) \cup {new}, found |-> TRUE, info |-> new]

InitInfoUpdate ==
    /\ stockinfo \in {{}, {TargetInfo}, HoldingStockInfo}
    /\ prices \in PriceTables({r.id : r \in stockinfo})
    /\ nextInfoId = Cardinality(stockinfo) + 1
    /\ local \in [id : 1..(MaxInfoId + 1), stock_update : StockInfoUpdates,
                  now : Clock]
    /\ prev = [stockinfo |-> stockinfo, prices |-> prices]
    /\ last = NoCall
    /\ runs = 0
    /\ transactions = <<>>
    /\ holdings = {}
    /\ nextTxId = 1
    /\ nextHoldId = 1
    /\ direct = {}
    /\ pc = <<>>

InfoUpdateCall ==
    /\ runs = 0
    /\ \E r \in {update_stock_info(stockinfo, local.id, local.stock_update,
                                   local.now)} :
          /\ stockinfo' = r.stockinfo
          /\ last' = [op |-> "update_stock_info", found |-> r.found,
                      status |-> StatusOf(r)]
    /\ runs' = 1
    /\ UNCHANGED <<prices, transactions, holdings, nextInfoId, nextTxId,
                   nextHoldId, direct, pc, local, prev>>

SpecInfoUpdate == InitInfoUpdate /\ [][InfoUpdateCall]_vars

InfoUpdated == last # NoCall /\ last.op = "update_stock_info" /\ last.found
OldInfo == CHOOSE r \in InfoById(prev.stockinfo, local.id) : TRUE
NewInfo == CHOOSE r \in InfoById(stockinfo, local.id) : TRUE

\* C18: update_stock_info on a stored StockInfo assigns exactly the fields
\* among name, market and currency that the body sets and sets updated_at to
\* the time of the call; the row's id and ticker, its fields the body does
\* not set, every other StockInfo row and every StockPrice row are as before.
C18_UpdateChangesOnlySuppliedFields ==
    InfoUpdated =>
        /\ Cardinality(InfoById(stockinfo, local.id)) = 1
        /\ NewInfo.id = OldInfo.id
        /\ NewInfo.ticker = OldInfo.ticker
        /\ \A f \in {"name", "market", "currency"} :
              NewInfo[f] = IF IsSet(local.stock_update[f])
                           THEN local.stock_update[f][1]
                           ELSE OldInfo[f]
        /\ NewInfo.updated_at = local.now
        /\ stockinfo \ {NewInfo} = prev.stockinfo \ {OldInfo}
        /\ prices = prev.prices

C18_Witness ==
    /\ InfoUpdated
    /\ IsSet(local.stock_update.name)
    /\ ~IsSet(local.stock_update.market)
    /\ NewInfo.name # OldInfo.name
    /\ NewInfo.market = OldInfo.market
    /\ NewInfo.updated_at # OldInfo.updated_at
    /\ Cardinality(stockinfo) = 2
    /\ \E p \in prices : p.stock_info_id = local.id

-----------------------------------------------------------------------------
(* SpecNotFound: one request to a handler of api/stock_api.py that reads,    *)
(* updates or deletes one stock info, transaction or holding detail.  Init   *)
(* draws a store the handlers can have left and the path parameters of the   *)
(* request; each action is one handler, run once on that store.              *)

\* The stores: empty; the stock with or without a price and with or without
\* a holding row POST /holding/ created; the stock with its first transaction
\* and the holding row the recomputation wrote for it (derived), the same row
\* after PUT /holding/1 set its quantity to 7 (patched), or no row.
NotFoundStores ==
    LET first   == [id |-> 1, user_id |-> TargetUser,
                    stock_info_id |-> TargetStock, ticker |-> TargetTicker,
                    transaction_type |-> BUY, quantity |-> 1,
                    total_amount |-> ToFloat(10)]
        price   == [stock_info_id |-> TargetStock, time |-> 1, close |-> 1]
        derived == _update_stock_holding_detail(<<first>>, {}, 1, TargetUser,
                                                TargetStock, TargetTicker).holdings
        patched == {PatchedHolding(h, [holding_quantity |-> <<7>>,
                                       average_buy_price |-> Unset,
                                       total_buy_amount |-> Unset]) : h \in derived}
        created == {[id |-> 1, user_id |-> c.user_id,
                     stock_info_id |-> c.stock_info_id, ticker |-> c.ticker,
                     holding_quantity |-> c.holding_quantity,
                     average_buy_price |-> c.average_buy_price,
                     total_buy_amount |-> c.total_buy_amount] :
                       c \in {d \in HoldingCreates : d.stock_info_id = TargetStock}}
    IN  {[stockinfo |-> {}, prices |-> {}, transactions |-> <<>>,
          holdings |-> {}, direct |-> {}]}
        \cup
        {[stockinfo |-> {TargetInfo}, prices |-> pr, transactions |-> <<>>,
          holdings |-> hs,
          direct |-> {Pair(h.user_id, h.stock_info_id) : h \in hs}] :
            pr \in {{}, {price}}, hs \in {{}, created}}
        \cup
        {[stockinfo |-> {TargetInfo}, prices |-> pr,
          transactions |-> <<first>>, holdings |-> hs,
          direct |-> {Pair(h.user_id, h.stock_info_id) : h \in hs \ derived}] :
            pr \in {{}, {price}}, hs \in {{}, derived, patched}}

Stored == [stockinfo |-> stockinfo, prices |-> prices,
           transactions |-> transactions, holdings |-> holdings]

InitNotFound ==
    /\ \E st \in NotFoundStores :
          /\ stockinfo = st.stockinfo
          /\ prices = st.prices
          /\ transactions = st.transactions
          /\ holdings = st.holdings
          /\ direct = st.direct
    /\ nextInfoId = Cardinality(stockinfo) + 1
    /\ nextTxId = Len(transactions) + 1
    /\ nextHoldId = Cardinality(holdings) + 1
    /\ local \in [id : 1..(MaxInfoId + 1), ticker : Tickers,
                  user_id : {TargetUser, OtherUser}]
    /\ prev = Stored
    /\ last = NoCall
    /\ runs = 0
    /\ pc = <<>>

\* result.scalar_one_or_none() on the rows a select found: None for no row,
\* the row for one, MultipleResultsFound raised for more.
scalar_one_or_none(rows) ==
    IF rows = {} THEN [found |-> FALSE, raised |-> FALSE]
    ELSE IF Cardinality(rows) > 1 THEN [found |-> FALSE, raised |-> TRUE]
    ELSE [found |-> TRUE, raised |-> FALSE, row |-> CHOOSE r \in rows : TRUE]

get_stock_transaction(txs, id) ==
    scalar_one_or_none({txs[i] : i \in {j \in 1..Len(txs) : txs[j].id = id}})

get_stock_holding_detail(hs, id) ==
    scalar_one_or_none({h \in hs : h.id = id})

get_user_stock_holding_detail_by_ticker(hs, user_id, ticker) ==
    scalar_one_or_none({h \in hs : h.user_id = user_id /\ h.ticker = ticker})

ReadFrame ==
    UNCHANGED <<stockinfo, prices, transactions, holdings, nextInfoId,
                nextTxId, nextHoldId, runs, prev, direct, pc, local>>

\* GET /info/id/{stock_info_id}
read_stock_info ==
    /\ last = NoCall
    /\ last' = [op |-> "read_stock_info",
                ok |-> get_stock_info(stockinfo, prices, local.id).found]
    /\ ReadFrame

\* GET /info/ticker/{ticker}
read_stock_info_by_ticker ==
    /\ last = NoCall
    /\ last' = [op |-> "read_stock_info_by_ticker",
                ok |-> get_stock_info_by_ticker(stockinfo, prices, local.ticker).found]
    /\ ReadFrame

\* PUT /info/{stock_info_id}
put_stock_info ==
    /\ last = NoCall
    /\ \E u \in StockInfoUpdates, now \in Clock :
          \E r \in {update_stock_info(stockinfo, local.id, u, now)} :
              /\ stockinfo' = r.stockinfo
              /\ last' = [op |-> "update_stock_info", ok |-> r.found]
    /\ UNCHANGED <<prices, transactions, holdings, nextInfoId, nextTxId,
                   nextHoldId, runs, prev, direct, pc, local>>

\* The transactions and holding details that reference the stock.
References(id) ==
    \/ \E i \in 1..Len(transactions) : transactions[i].stock_info_id = id
    \/ \E h \in holdings : h.stock_info_id = id

\* DELETE /info/{stock_info_id}.  When transactions or holding details
\* reference the stock, a database that enforces their foreign keys rejects
\* the commit and one that does not enforce them lets the delete through.
remove_stock_info ==
    /\ last = NoCall
    /\ \/ /\ InfoById(stockinfo, local.id) = {}
          /\ last' = [op |-> "delete_stock_info", ok |-> FALSE]
          /\ UNCHANGED <<stockinfo, prices>>
       \/ /\ InfoById(stockinfo, local.id) # {}
          /\ \E r \in {delete_stock_info(stockinfo, prices, local.id)} :
                /\ stockinfo' = r.stockinfo
                /\ prices' = r.prices
                /\ last' = [op |-> "delete_stock_info", ok |-> r.ret]
       \/ /\ InfoById(stockinfo, local.id) # {}
          /\ References(local.id)
          /\ last' = [op |-> "delete_stock_info", ok |-> FALSE, raised |-> TRUE]
          /\ UNCHANGED <<stockinfo, prices>>
    /\ UNCHANGED <<transactions, holdings, nextInfoId, nextTxId, nextHoldId,
                   runs, prev, direct, pc, local>>

\* GET /transaction/{transaction_id}
read_stock_transaction ==
    /\ last = NoCall
    /\ last' = [op |-> "read_stock_transaction",
                ok |-> get_stock_transaction(transactions, local.id).found]
    /\ ReadFrame

\* PUT /transaction/{transaction_id}
put_stock_transaction ==
    /\ last = NoCall
    /\ \E u \in TxUpdates : update_stock_transaction(local.id, u)

\* DELETE /transaction/{transaction_id}
remove_stock_transaction ==
    /\ last = NoCall
    /\ delete_stock_transaction(local.id)

\* GET /holding/{holding_id}
read_stock_holding_detail ==
    /\ last = NoCall
    /\ last' = [op |-> "read_stock_holding_detail",
                ok |-> get_stock_holding_detail(holdings, local.id).found]
    /\ ReadFrame

\* GET /holding/user/{user_id}/ticker/{ticker}
read_user_stock_holding_detail_by_ticker ==
    /\ last = NoCall
    /\ last' = [op |-> "read_user_stock_holding_detail_by_ticker",
                ok |-> get_user_stock_holding_detail_by_ticker(
                           holdings, local.user_id, local.ticker).found]
    /\ ReadFrame

\* PUT /holding/{holding_id}
put_stock_holding_detail ==
    /\ last = NoCall
    /\ \E u \in HoldingUpdates : update_stock_holding_detail(local.id, u)

\* DELETE /holding/{holding_id}
remove_stock_holding_detail ==
    /\ last = NoCall
    /\ delete_stock_holding_detail(local.id)

NextNotFound ==
    \/ read_stock_info
    \/ read_stock_info_by_ticker
    \/ put_stock_info
    \/ remove_stock_info
    \/ read_stock_transaction
    \/ put_stock_transaction
    \/ remove_stock_transaction
    \/ read_stock_holding_detail
    \/ read_user_stock_holding_detail_by_ticker
    \/ put_stock_holding_detail
    \/ remove_stock_holding_detail

SpecNotFound == InitNotFound /\ [][NextNotFound]_vars

\* if result is None: raise HTTPException(status_code=404); a raised
\* database error is answered with 500.
ResponseStatus(l) ==
    IF "raised" \in DOMAIN l THEN 500 ELSE StatusOf([found |-> l.ok])

InfoOps == {"read_stock_info", "update_stock_info", "delete_stock_info"}
TransactionRequests ==
    {"read_stock_transaction", "update_stock_transaction", "delete_stock_transaction"}
HoldingRequests ==
    {"read_stock_holding_detail", "update_stock_holding_detail",
     "delete_stock_holding_detail"}

\* The request that was answered addressed a row the store did not hold.
AddressedAbsent ==
    /\ last # NoCall
    /\ CASE last.op \in InfoOps ->
                InfoById(prev.stockinfo, local.id) = {}
         [] last.op = "read_stock_info_by_ticker" ->
                InfoByTicker(prev.stockinfo, local.ticker) = {}
         [] last.op \in TransactionRequests ->
                \A i \in 1..Len(prev.transactions) :
                    prev.transactions[i].id # local.id
         [] last.op \in HoldingRequests ->
                \A h \in prev.holdings : h.id # local.id
         [] last.op = "read_user_stock_holding_detail_by_ticker" ->
                \A h \in prev.holdings :
                    ~(h.user_id = local.user_id /\ h.ticker = local.ticker)

\* C19: a read, update or delete of a stock info, a transaction or a holding
\* detail whose id (or ticker, or user and ticker) names no stored row is
\* answered with 404 and leaves every stored row as it was; for a
\* transaction the holding rows are not recomputed, even where they differ
\* from what the ledger gives.
C19_AbsentKeyIs404AndNoChange ==
    AddressedAbsent =>
        /\ ResponseStatus(last) = 404
        /\ Stored = prev
        /\ last.op \in TransactionRequests =>
              holdings = prev.holdings /\ nextHoldId = Cardinality(prev.holdings) + 1

C19_Witness ==
    /\ AddressedAbsent
    /\ last.op = "update_stock_transaction"
    /\ Len(transactions) = 1
    /\ \E h \in holdings : h.holding_quantity = 7
    /\ direct # {}
    /\ ResponseStatus(last) = 404

-----------------------------------------------------------------------------
(* SpecDelete: delete_stock_info statement by statement.  stockinfo and      *)
(* prices are the committed tables, which every other session reads; the     *)
(* session's own transaction works on a copy, local.work, that becomes the   *)
(* committed tables at COMMIT and is dropped at ROLLBACK.  The function      *)
(* marks the rows with session.delete and issues the one commit(), which     *)
(* flushes a DELETE per marked row and then commits.  An error can end the   *)
(* call at any statement.                                                    *)

Tables(si, pr) == [stockinfo |-> si, prices |-> pr]

AfterStatement_Autocommit(committed, work) == work

\* The committed tables after a statement of an open transaction: DELETEs
\* flushed by the session stay in its transaction until COMMIT.
AfterStatement(committed, work) == committed

InitDelete ==
    /\ stockinfo \in {{TargetInfo}, HoldingStockInfo}
    /\ prices \in PriceTables({r.id : r \in stockinfo})
    /\ nextInfoId = Cardinality(stockinfo) + 1
    /\ local = [work |-> Tables(stockinfo, prices), todo |-> {}, marked |-> {},
                flushed |-> 0]
    /\ \E id \in 1..(MaxInfoId + 1) : pc = [at |-> "select", id |-> id]
    /\ prev = Tables(stockinfo, prices)
    /\ last = NoCall
    /\ runs = 0
    /\ transactions = <<>>
    /\ holdings = {}
    /\ nextTxId = 1
    /\ nextHoldId = 1
    /\ direct = {}

DeleteFrame ==
    UNCHANGED <<transactions, holdings, nextInfoId, nextTxId, nextHoldId,
                runs, prev, direct>>

\* The two selects: the StockInfo row, then its prices.
select_rows ==
    /\ pc.at = "select"
    /\ IF InfoById(local.work.stockinfo, pc.id) = {}
       THEN /\ pc' = [pc EXCEPT !.at = "done"]
            /\ last' = [op |-> "delete_stock_info", ok |-> FALSE]
            /\ UNCHANGED local
       ELSE /\ pc' = [pc EXCEPT !.at = "delete"]
            /\ local' = [local EXCEPT
                           !.todo = {p \in local.work.prices : p.stock_info_id = pc.id}]
            /\ UNCHANGED last
    /\ UNCHANGED <<stockinfo, prices>>
    /\ DeleteFrame

\* await session.delete(price), once per selected price.
delete_price ==
    /\ pc.at = "delete"
    /\ \E p \in local.todo :
          local' = [local EXCEPT !.todo = @ \ {p}, !.marked = @ \cup {p}]
    /\ UNCHANGED <<stockinfo, prices, pc, last>>
    /\ DeleteFrame

\* await session.delete(db_stock_info), then commit() begins.
delete_info ==
    /\ pc.at = "delete"
    /\ local.todo = {}
    /\ local' = [local EXCEPT !.marked = @ \cup InfoById(local.work.stockinfo, pc.id)]
    /\ pc' = [pc EXCEPT !.at = "flush"]
    /\ UNCHANGED <<stockinfo, prices, last>>
    /\ DeleteFrame

\* commit() flushes one DELETE: the marked prices first, then the StockInfo.
flush_delete ==
    /\ pc.at = "flush"
    /\ \E row \in local.marked :
          /\ (row \in local.work.stockinfo) =>
                 (local.marked \cap local.work.prices = {})
          /\ \E work \in {Tables(local.work.stockinfo \ {row},
                                 local.work.prices \ {row})} :
                /\ local' = [local EXCEPT !.work = work, !.marked = @ \ {row},
                                          !.flushed = @ + 1]
                /\ stockinfo' = AfterStatement(Tables(stockinfo, prices), work).stockinfo
                /\ prices' = AfterStatement(Tables(stockinfo, prices), work).prices
    /\ UNCHANGED <<pc, last>>
    /\ DeleteFrame

\* commit() commits the transaction once every DELETE is flushed.
commit_delete ==
    /\ pc.at = "flush"
    /\ local.marked = {}
    /\ stockinfo' = local.work.stockinfo
    /\ prices' = local.work.prices
    /\ pc' = [pc EXCEPT !.at = "done"]
    /\ last' = [op |-> "delete_stock_info", ok |-> TRUE]
    /\ UNCHANGED local
    /\ DeleteFrame

\* A statement raises: the exception leaves the function, the session is
\* closed and its transaction rolled back.
delete_raises ==
    /\ pc.at \in {"delete", "flush"}
    /\ pc' = [pc EXCEPT !.at = "done"]
    /\ last' = [op |-> "delete_stock_info", ok |-> FALSE, raised |-> TRUE]
    /\ UNCHANGED <<stockinfo, prices, local>>
    /\ DeleteFrame

NextDelete ==
    \/ select_rows
    \/ delete_price
    \/ delete_info
    \/ flush_delete
    \/ commit_delete
    \/ delete_raises

SpecDelete == InitDelete /\ [][NextDelete]_vars

\* The tables with the stock and all its prices gone.
WithoutStock(t, id) ==
    Tables({r \in t.stockinfo : r.id # id},
           {p \in t.prices : p.stock_info_id # id})

DeleteFailed == last # NoCall /\ "raised" \in DOMAIN last

\* C20: while delete_stock_info runs and after it ends, the committed tables
\* hold either the stock with every price it had or neither the stock nor
\* any of its prices; when a statement fails the call raises and the
\* committed tables are as they were before the call; when the call returns
\* true the stock and all its prices are gone, and when it returns false
\* nothing has changed.
C20_DeleteIsAtomic ==
    /\ Tables(stockinfo, prices) \in {prev, WithoutStock(prev, pc.id)}
    /\ DeleteFailed => Tables(stockinfo, prices) = prev
    /\ (last # NoCall /\ last.ok) =>
           Tables(stockinfo, prices) = WithoutStock(prev, pc.id)
    /\ (last # NoCall /\ ~last.ok) => Tables(stockinfo, prices) = prev

\* The call failed after it had flushed the DELETE of one of two prices.
C20_Witness ==
    /\ DeleteFailed
    /\ local.flushed = 1
    /\ Cardinality({p \in prev.prices : p.stock_info_id = pc.id}) = 2
    /\ local.work.prices # prev.prices
    /\ prices = prev.prices

-----------------------------------------------------------------------------
(***************************************************************************)
(* The incremental downloader, services/stock_downloader.py.               *)
(*                                                                         *)
(* A date string "YYYY-MM-DD" is the triple <<year, month, day>>; a date   *)
(* is its day of the year 2025, so that + timedelta(days=1) is + 1 and the *)
(* month ends are where the calendar puts them.  Timestamps count hours    *)
(* from the start of day 0, as in the adapter.                             *)
(***************************************************************************)
DaysInMonth(m) ==
    CASE m = 2 -> 28
      [] m \in {4, 6, 9, 11} -> 30
      [] OTHER -> 31

RECURSIVE DaysBeforeMonth(_)
DaysBeforeMonth(m) ==
    IF m = 1 THEN 0 ELSE DaysBeforeMonth(m - 1) + DaysInMonth(m - 1)

\* datetime.strptime(s, "%Y-%m-%d").date()
strptime(s) == DaysBeforeMonth(s[2]) + s[3]

\* d.strftime("%Y-%m-%d")
strftime(d) ==
    LET m == CHOOSE k \in 1..12 :
                 DaysBeforeMonth(k) < d /\ d <= DaysBeforeMonth(k) + DaysInMonth(k)
    IN  <<2025, m, d - DaysBeforeMonth(m)>>

\* The metadata file: absent, or the JSON object json.dump wrote, one member
\* per key of the dictionary.
json_dump(metadata) ==
    [exists |-> TRUE,
     members |-> {[key |-> k, value |-> metadata[k]] : k \in DOMAIN metadata}]

\* _load_metadata: json.load of the file if it exists, {} otherwise.
_load_metadata(file) ==
    IF file.exists
    THEN [k \in {e.key : e \in file.members} |->
             (CHOOSE e \in file.members : e.key = k).value]
    ELSE <<>>

_save_metadata_KeepsFile(file, ticker_metadata) == file

\* _save_metadata: the file is rewritten from the dictionary.
_save_metadata(file, ticker_metadata) == json_dump(ticker_metadata)

_get_effective_start_date_AsRequested(ticker_metadata, ticker, requested_start_date) ==
    strptime(requested_start_date)

_get_effective_start_date(ticker_metadata, ticker, requested_start_date) ==
    IF ticker \in DOMAIN ticker_metadata
    THEN strptime(ticker_metadata[ticker]) + 1
    ELSE strptime(requested_start_date)

\* data.index[-1].strftime("%Y-%m-%d") once the index is in UTC.
LastDateInData(index) ==
    LET ts  == index[Len(index)]
        utc == IF ts.tz = "naive" THEN tz_localize(ts, "UTC")
                                  ELSE tz_convert(ts, "UTC")
    IN  strftime(utc.instant \div 24)

-----------------------------------------------------------------------------
(* SpecDownloader: one StockDownloader and its metadata file.  local holds *)
(* the object's ticker_metadata and the file; each download draws its      *)
(* arguments and what the provider answers: bars at midnight of any of the *)
(* days from start up to, not including, end, on a naive index or on one   *)
(* aware in some zone, or no bar at all.                                   *)

MaxDays == 3

\* The days requests are drawn from: the last day of February and the
\* first of March.
WindowDays == {strptime(<<2025, 2, 28>>) + i : i \in 0..(MaxDays - 1)}

RECURSIVE SortedDays(_)
SortedDays(S) ==
    IF S = {} THEN <<>>
    ELSE LET d == CHOOSE x \in S : \A y \in S : x <= y
         IN  <<d>> \o SortedDays(S \ {d})

\* yf.download(ticker, start=start, end=end): the index of the frame.
yf_download(start, end) ==
    LET days == {SortedDays(S) :
                   S \in SUBSET {d \in WindowDays :
                                    strptime(start) <= d /\ d < strptime(end)}}
    IN  {[i \in 1..Len(q) |->
            IF tz = "naive"
            THEN [tz |-> "naive", wall |-> 24 * q[i]]
            ELSE [tz |-> tz, instant |-> 24 * q[i] - UtcOffset(tz)]] :
           q \in days, tz \in {"naive"} \cup Zones}

InitDownloader ==
    /\ \E file \in {[exists |-> FALSE]} \cup
                   {json_dump(m) : m \in {<<>>, [t \in {"A"} |-> <<2025, 2, 28>>]}} :
          local = [ticker_metadata |-> _load_metadata(file), file |-> file]
    /\ prev = local
    /\ last = NoCall
    /\ runs = 0
    /\ stockinfo = {}
    /\ prices = {}
    /\ transactions = <<>>
    /\ holdings = {}
    /\ nextInfoId = 1
    /\ nextTxId = 1
    /\ nextHoldId = 1
    /\ direct = {}
    /\ pc = <<>>

DownloaderFrame ==
    UNCHANGED <<stockinfo, prices, transactions, holdings, nextInfoId,
                nextTxId, nextHoldId, runs, direct, pc>>

\* StockDownloader.download(ticker, start_date, end_date)
download ==
    \E ticker \in Tickers, start_date \in {strftime(d) : d \in WindowDays},
       end_date \in {strftime(d) : d \in WindowDays} :
      LET effective_start_date ==
              _get_effective_start_date(local.ticker_metadata, ticker, start_date)
          end_dt == strptime(end_date)
          call   == [op |-> "download", ticker |-> ticker,
                     start_date |-> start_date, end_date |-> end_date]
      IN  /\ prev' = local
          /\ DownloaderFrame
          /\ IF effective_start_date > end_dt
             THEN /\ last' = call @@ [asked |-> FALSE, returned |-> None]
                  /\ UNCHANGED local
             ELSE \E index \in yf_download(strftime(effective_start_date),
                                           strftime(end_dt + 1)) :
                    LET request == [asked |-> TRUE,
                                    start |-> strftime(effective_start_date),
                                    end |-> strftime(end_dt + 1)]
                    IN  IF index = <<>>
                        THEN /\ last' = call @@ request @@ [returned |-> None]
                             /\ UNCHANGED local
                        ELSE LET metadata ==
                                     [t \in DOMAIN local.ticker_metadata \cup {ticker} |->
                                        IF t = ticker THEN LastDateInData(index)
                                        ELSE local.ticker_metadata[t]]
                                 returned ==
                                     [kind |-> "DataFrame",
                                      index |->
                                        [i \in 1..Len(index) |->
                                           IF index[i].tz = "naive"
                                           THEN tz_localize(index[i], "UTC")
                                           ELSE tz_convert(index[i], "UTC")]]
                             IN  /\ last' = call @@ request @@ [returned |-> returned]
                                 /\ local' = [ticker_metadata |-> metadata,
                                              file |-> _save_metadata(local.file, metadata)]

\* StockDownloader(metadata_path) built again over the same file.
__init__ ==
    /\ last # NoCall
    /\ last.op = "download"
    /\ last' = [op |-> "__init__"]
    /\ prev' = local
    /\ local' = [local EXCEPT !.ticker_metadata = _load_metadata(local.file)]
    /\ DownloaderFrame

NextDownloader ==
    \/ download
    \/ __init__

SpecDownloader == InitDownloader /\ [][NextDownloader]_vars

Downloaded == last # NoCall /\ last.op = "download"

\* C21: a download that asks the provider asks for the day after the
\* recorded last-download date of the ticker when there is one, whatever
\* start_date was requested, and for the requested start_date when there is
\* none; the end it asks for is the day after end_date.  The provider is
\* asked exactly when that start is not after end_date.
C21_DownloadIsIncremental ==
    Downloaded =>
        LET recorded == last.ticker \in DOMAIN prev.ticker_metadata
            start    == IF recorded
                        THEN strptime(prev.ticker_metadata[last.ticker]) + 1
                        ELSE strptime(last.start_date)
        IN  /\ last.asked <=> start <= strptime(last.end_date)
            /\ last.asked =>
                  /\ strptime(last.start) = start
                  /\ strptime(last.end) = strptime(last.end_date) + 1
                  /\ last.start[3] \in 1..DaysInMonth(last.start[2])
                  /\ last.end[3] \in 1..DaysInMonth(last.end[2])

C21_Witness ==
    /\ Downloaded
    /\ last.asked
    /\ last.ticker \in DOMAIN prev.ticker_metadata
    /\ prev.ticker_metadata[last.ticker] = <<2025, 2, 28>>
    /\ last.start_date = <<2025, 2, 28>>
    /\ last.start = <<2025, 3, 1>>
    /\ last.end = <<2025, 3, 3>>

\* C22: after a download that returns data, the metadata entry of its ticker
\* is the date of the last row of the returned data (whose index is in UTC),
\* the metadata file holds exactly the in-memory metadata, and the entries
\* of the other tickers are as before; a download that returns None leaves
\* the in-memory metadata and the file as they were.
C22_MetadataFollowsReturnedData ==
    Downloaded =>
        IF last.returned # None
        THEN LET ts == last.returned.index[Len(last.returned.index)]
             IN  /\ ts.tz = "UTC"
                 /\ last.ticker \in DOMAIN local.ticker_metadata
                 /\ local.ticker_metadata[last.ticker] = strftime(WallClock(ts) \div 24)
                 /\ local.file.exists
                 /\ _load_metadata(local.file) = local.ticker_metadata
                 /\ \A t \in Tickers \ {last.ticker} :
                       /\ t \in DOMAIN local.ticker_metadata
                            <=> t \in DOMAIN prev.ticker_metadata
                       /\ t \in DOMAIN prev.ticker_metadata =>
                            local.ticker_metadata[t] = prev.ticker_metadata[t]
        ELSE local = prev

C22_Witness ==
    /\ Downloaded
    /\ last.returned # None
    /\ Len(last.returned.index) = 2
    /\ last.ticker = "B"
    /\ "A" \in DOMAIN prev.ticker_metadata
    /\ "B" \in DOMAIN prev.ticker_metadata
    /\ local.ticker_metadata["B"] # prev.ticker_metadata["B"]
    /\ local.ticker_metadata["B"] = <<2025, 3, 2>>
    /\ local.file # prev.file

-----------------------------------------------------------------------------
(* The races of SpecRace looked at from the ledger.                          *)

\* The ledger and the row of the racing pair, and what request p read of
\* them: its fold is stale when the ledger has changed since, its row when
\* the stored row has.
StaleLedgerRead(p) ==
    local[p].fold # FoldTransactions(PairLedger(TargetUser, TargetStock))
StaleRowRead(p) == local[p].found # PairRows(TargetUser, TargetStock)

\* The pair's row is the fold of the pair's ledger, or absent when the net
\* quantity is not positive.
RaceRowDerived ==
    IF NetQuantity(PairLedger(TargetUser, TargetStock)) > 0
    THEN /\ Cardinality(PairRows(TargetUser, TargetStock)) = 1
         /\ RowsDerived(TargetUser, TargetStock)
    ELSE PairRows(TargetUser, TargetStock) = {}

\* C23: the recomputation takes no lock and re-reads nothing.  A request
\* whose write completes leaves the row different from the fold of the
\* ledger only if the ledger or the row it read had changed by the time it
\* wrote, and a request fails with IntegrityError exactly when it read no row
\* and a row of the pair is there when it inserts.  Both happen: see the
\* witness for the overwrite from a stale ledger read.
C23_RaceLosesUpdate ==
    [][\A p \in Procs :
          /\ (pc[p] = "write" /\ pc'[p] = "done" /\ direct = {} /\ ~RaceRowDerived')
                => (StaleLedgerRead(p) \/ StaleRowRead(p))
          /\ (pc[p] = "write" /\ pc'[p] = "raised"
                /\ local'[p].error = "IntegrityError")
                => /\ local[p].found = {}
                   /\ local[p].fold.holding_quantity > 0
                   /\ PairRows(TargetUser, TargetStock) # {}
                   /\ UNCHANGED <<holdings, transactions>>]_vars

\* Both requests have finished without an error, the ledger holds their two
\* buys, and the row, inserted by the one and then overwritten by the other,
\* holds one share: the fold of the ledger as it was before the second buy.
C23_Witness ==
    /\ \A p \in Procs : pc[p] = "done"
    /\ direct = {}
    /\ Len(transactions) = 2
    /\ \A i \in 1..2 : transactions[i].transaction_type = BUY
    /\ nextHoldId = 2
    /\ \E h \in PairRows(TargetUser, TargetStock) : h.holding_quantity = 1
    /\ ~RaceRowDerived

-----------------------------------------------------------------------------
(* SpecInfoRace: two requests of get_or_create_stock_info, each on its own  *)
(* session, interleaved at the two statements the function sends: the       *)
(* select by ticker, and the insert with its commit.                        *)

MaxCalls == 3

\* A store without the unique index on stockinfo.ticker.
TickerUniqueViolation_Off(si, ticker) == FALSE

\* ticker: str = Field(unique=True, index=True): the insert of a row is
\* rejected when a committed row has its ticker.
TickerUniqueViolation(si, ticker) == InfoByTicker(si, ticker) # {}

InitInfoRace ==
    /\ stockinfo = {}
    /\ nextInfoId = 1
    /\ pc = [p \in Procs |-> "idle"]
    /\ local = [p \in Procs |-> [error |-> "none"]]
    /\ runs = 0
    /\ last = NoCall
    /\ prev = {}
    /\ prices = {}
    /\ transactions = <<>>
    /\ holdings = {}
    /\ nextTxId = 1
    /\ nextHoldId = 1
    /\ direct = {}

InfoRaceFrame ==
    UNCHANGED <<prices, transactions, holdings, nextTxId, nextHoldId, last,
                prev, direct>>

\* result = await session.execute(select(StockInfo).where(ticker == ticker));
\* the row is returned at once when there is one.
select_stock_info(p) ==
    /\ pc[p] \in {"idle", "done", "raised"}
    /\ runs < MaxCalls
    /\ runs' = runs + 1
    /\ \E ticker \in Tickers, name \in {"n1", "n2"} :
          LET found == InfoByTicker(stockinfo, ticker)
          IN  IF found # {}
              THEN /\ local' = [local EXCEPT ![p] =
                         [error |-> "none", ticker |-> ticker,
                          returned |-> CHOOSE r \in found : TRUE]]
                   /\ pc' = [pc EXCEPT ![p] = "done"]
              ELSE /\ local' = [local EXCEPT ![p] =
                         [error |-> "none", ticker |-> ticker,
                          stock_info_data |-> StockInfoData(ticker, name)]]
                   /\ pc' = [pc EXCEPT ![p] = "insert"]
    /\ UNCHANGED <<stockinfo, nextInfoId>>
    /\ InfoRaceFrame

\* session.add(db_stock_info); await session.commit(); refresh; return
insert_stock_info(p) ==
    /\ pc[p] = "insert"
    /\ LET data == local[p].stock_info_data
           row  == [id |-> nextInfoId, ticker |-> data.ticker, name |-> data.name,
                    market |-> data.market, currency |-> data.currency,
                    updated_at |-> 0]
       IN  IF TickerUniqueViolation(stockinfo, data.ticker)
           THEN /\ local' = [local EXCEPT ![p] =
                      [error |-> "IntegrityError", ticker |-> data.ticker]]
                /\ pc' = [pc EXCEPT ![p] = "raised"]
                /\ UNCHANGED <<stockinfo, nextInfoId>>
           ELSE /\ stockinfo' = stockinfo \cup {row}
                /\ nextInfoId' = nextInfoId + 1
                /\ local' = [local EXCEPT ![p] =
                      [error |-> "none", ticker |-> data.ticker, returned |-> row]]
                /\ pc' = [pc EXCEPT ![p] = "done"]
    /\ UNCHANGED runs
    /\ InfoRaceFrame

NextInfoRace ==
    \/ \E p \in Procs : select_stock_info(p)
    \/ \E p \in Procs : insert_stock_info(p)

SpecInfoRace == InitInfoRace /\ [][NextInfoRace]_vars

\* C24: under every interleaving of two get_or_create_stock_info requests
\* the store holds at most one StockInfo row per ticker; a request that
\* finished returned the stored row of its ticker; and a request fails only
\* with the unique-constraint error of an insert that met a row of its
\* ticker committed after its lookup missed, that row being left as it is.
C24_OneRowPerTickerSecondCreatorFails ==
    /\ \A r, q \in stockinfo : r.ticker = q.ticker => r = q
    /\ \A p \in Procs :
          /\ pc[p] = "done" =>
                /\ local[p].returned \in stockinfo
                /\ local[p].returned.ticker = local[p].ticker
          /\ pc[p] = "raised" =>
                /\ local[p].error = "IntegrityError"
                /\ InfoByTicker(stockinfo, local[p].ticker) # {}

\* Both requests missed the lookup of the same new ticker; one has inserted
\* the row and the insert of the other has been rejected.
C24_Witness ==
    \E p, q \in Procs :
        /\ pc[p] = "done" /\ pc[q] = "raised"
        /\ local[q].error = "IntegrityError"
        /\ local[p].ticker = local[q].ticker
        /\ runs = 2
        /\ stockinfo = {local[p].returned}
        /\ nextInfoId = 2

-----------------------------------------------------------------------------
(* SpecFail: the transaction functions on a store whose statements may      *)
(* fail once the ledger write of a transaction function is committed.       *)

InitFail ==
    /\ stockinfo = HoldingStockInfo
    /\ prices = {}
    /\ transactions = <<>>
    /\ holdings = {}
    /\ nextInfoId = 3
    /\ nextTxId = 1
    /\ nextHoldId = 1
    /\ last = NoCall
    /\ runs = 0
    /\ prev = {}
    /\ direct = {}
    /\ pc = <<"faults">>
    /\ local = <<>>

NextFail ==
    \/ \E c \in TxCreates : create_stock_transaction(c)
    \/ \E id \in 1..MaxTxId, u \in TxUpdates : update_stock_transaction(id, u)
    \/ \E id \in 1..MaxTxId : delete_stock_transaction(id)

SpecFail == InitFail /\ [][NextFail]_vars

\* The step is a transaction function whose recomputation raised.
RecomputeFailed == "raised" \in DOMAIN last'

\* The ledger after the step holds the write: the created or updated
\* transaction is stored, the deleted one is not.
LedgerKeepsWrite ==
    IF last'.op = "delete_stock_transaction"
    THEN /\ \A i \in 1..Len(transactions') : transactions'[i].id # last'.written.id
         /\ Len(transactions') = Len(transactions) - 1
    ELSE \E i \in 1..Len(transactions') : transactions'[i] = last'.written

\* The pair's row is the fold of the pair's whole ledger, and is absent when
\* the net quantity is not positive.
RowIsFold(txs, hs, u, s) ==
    LET led  == SelectTransactions(txs, u, s)
        rows == SelectHolding(hs, u, s)
    IN  IF NetQuantity(led) > 0
        THEN Cardinality(rows) = 1 /\ \A h \in rows : HoldsNetPosition(h, led)
        ELSE rows = {}
PairRowIsFold(u, s) == RowIsFold(transactions, holdings, u, s)

\* C25 as stated: whenever the recomputation fails, the holding rows are as
\* they were before the write.
C25_FailedRecomputeKeepsRow ==
    [][RecomputeFailed => (LedgerKeepsWrite /\ holdings' = holdings)]_vars

\* C25: the ledger write of a transaction function is committed before the
\* recomputation starts and stays when the recomputation fails.  The holding
\* rows are then as they were before the write, unless the error came from
\* the refresh after the recomputation's own commit, in which case the
\* pair's row already is the fold of the ledger.  After every transaction
\* write of a pair that completes, the pair's row is the fold of the pair's
\* whole ledger, the transactions whose recomputation failed included.
C25_LedgerKeptRowRepairedByNextWrite ==
    /\ [][RecomputeFailed =>
            /\ LedgerKeepsWrite
            /\ IF last'.raised = "before_commit"
               THEN holdings' = holdings /\ nextHoldId' = nextHoldId
               ELSE RowIsFold(transactions', holdings', last'.user_id,
                              last'.stock_info_id)]_vars
    /\ []((last.op \in TransactionOps /\ last.ok)
            => PairRowIsFold(last.user_id, last.stock_info_id))

\* The second buy of the pair is in the ledger, its recomputation failed
\* before its commit, and the row still holds the one share of the first.
C25_Witness ==
    /\ last.op = "create_stock_transaction"
    /\ "raised" \in DOMAIN last
    /\ last.raised = "before_commit"
    /\ Len(PairLedger(last.user_id, last.stock_info_id)) = 2
    /\ \A i \in 1..Len(transactions) : transactions[i].transaction_type = BUY
    /\ transactions[2] = last.written
    /\ \E h \in PairRows(last.user_id, last.stock_info_id) : h.holding_quantity = 1
    /\ ~PairRowIsFold(last.user_id, last.stock_info_id)

-----------------------------------------------------------------------------
(* SpecIntegrity: transactions are created and StockInfo rows deleted, one  *)
(* call at a time, on a store with two StockInfo rows.  The foreign keys of *)
(* stocktransaction and stockholdingdetail are declared in the models;      *)
(* whether the database enforces them depends on the database the           *)
(* deployment configures (DATABASE_URL), which local.foreign_keys records.  *)

InitIntegrity ==
    /\ stockinfo = HoldingStockInfo
    /\ prices \in {{}, {[stock_info_id |-> 1, time |-> 1, close |-> 1]}}
    /\ transactions = <<>>
    /\ holdings = {}
    /\ nextInfoId = 3
    /\ nextTxId = 1
    /\ nextHoldId = 1
    /\ last = NoCall
    /\ runs = 0
    /\ prev = {}
    /\ direct = {}
    /\ pc = <<>>
    /\ local \in [foreign_keys : BOOLEAN]

\* POST /transaction/: the insert is rejected by an enforcing database when
\* no StockInfo has the id.
post_stock_transaction ==
    \E c \in TxCreates :
        IF local.foreign_keys /\ InfoById(stockinfo, c.stock_info_id) = {}
        THEN /\ last' = [op |-> "create_stock_transaction", ok |-> FALSE,
                         raised |-> "IntegrityError"]
             /\ UNCHANGED <<stockinfo, prices, transactions, holdings, nextInfoId,
                            nextTxId, nextHoldId, runs, prev, direct, pc, local>>
        ELSE create_stock_transaction(c)

\* DELETE /info/{stock_info_id}: delete_stock_info deletes the prices of the
\* stock and the StockInfo, and nothing else.  An enforcing database rejects
\* the commit when a transaction or holding detail references the stock.
delete_referenced_stock_info ==
    \E id \in StockIds :
        \E r \in {delete_stock_info(stockinfo, prices, id)} :
            /\ IF r.ret /\ References(id) /\ local.foreign_keys
               THEN /\ last' = [op |-> "delete_stock_info", stock_info_id |-> id,
                                ok |-> FALSE, raised |-> "IntegrityError"]
                    /\ UNCHANGED <<stockinfo, prices>>
               ELSE /\ stockinfo' = r.stockinfo
                    /\ prices' = r.prices
                    /\ last' = [op |-> "delete_stock_info", stock_info_id |-> id,
                                ok |-> r.ret]
            /\ UNCHANGED <<transactions, holdings, nextInfoId, nextTxId,
                           nextHoldId, runs, prev, direct, pc, local>>

NextIntegrity ==
    \/ post_stock_transaction
    \/ delete_referenced_stock_info

SpecIntegrity == InitIntegrity /\ [][NextIntegrity]_vars

\* C26 as stated: in every state every StockTransaction row and every
\* StockHoldingDetail row has the stock_info_id of a stored StockInfo row.
C26_ReferentialIntegrityKept ==
    /\ \A i \in 1..Len(transactions) :
          InfoById(stockinfo, transactions[i].stock_info_id) # {}
    /\ \A h \in holdings : InfoById(stockinfo, h.stock_info_id) # {}

-----------------------------------------------------------------------------
(* C27: the signs of the row the recomputation writes (SpecRecompute; every *)
(* ledger drawn has non-negative quantities and total_amounts).             *)

\* average_buy_price * holding_quantity, a float times an int.
PriceTimesQuantity(h) == RoundQuot(h.average_buy_price * h.holding_quantity, 1)

NoSells(txs) == OfType(txs, SELL) = {}

\* C27 as stated: every row written by the recomputation has
\* holding_quantity > 0, total_buy_amount >= 0 and average_buy_price >= 0, and
\* average_buy_price * holding_quantity = total_buy_amount.
C27_RowNonNegativeAndProductExact ==
    Ran =>
        \A h \in TargetRows :
            /\ h.holding_quantity > 0
            /\ h.total_buy_amount >= 0
            /\ h.average_buy_price >= 0
            /\ PriceTimesQuantity(h) = h.total_buy_amount

\* The part of C27 about the product alone.
C27_ProductExact ==
    Ran => \A h \in TargetRows : PriceTimesQuantity(h) = h.total_buy_amount

\* C27, amended: every row written by the recomputation has
\* holding_quantity > 0; average_buy_price is the float nearest to
\* total_buy_amount / holding_quantity, so it has the sign of
\* total_buy_amount (or is 0) and average_buy_price * holding_quantity is
\* within holding_quantity half-spacings of total_buy_amount;
\* total_buy_amount and average_buy_price are >= 0 when the ledger of the
\* pair has no sell, and total_buy_amount is negative when the sells of the
\* pair amount to more than its buys.
C27_RowPositiveQuantityRoundedAverage ==
    Ran =>
        \A h \in TargetRows :
            /\ h.holding_quantity > 0
            /\ h.average_buy_price = FDiv(h.total_buy_amount, h.holding_quantity)
            /\ h.total_buy_amount >= 0 => h.average_buy_price >= 0
            /\ h.total_buy_amount <= 0 => h.average_buy_price <= 0
            /\ 2 * Abs(h.average_buy_price * h.holding_quantity - h.total_buy_amount)
                  <= h.holding_quantity
                     * Spacing(Abs(h.total_buy_amount) \div h.holding_quantity)
            /\ NoSells(TargetLedger) =>
                  h.total_buy_amount >= 0 /\ h.average_buy_price >= 0
            /\ (ExactlySummable(TargetLedger) /\ NetAmount(TargetLedger) < 0) =>
                  h.total_buy_amount < 0

\* Two buys of 10 for 1000 each and a sell of 15 for 2250 have been
\* recomputed: the row holds 5 shares at a total_buy_amount of -250.
C27_Witness ==
    /\ Ran
    /\ \A i \in 1..Len(TargetLedger) :
          TargetLedger[i].quantity >= 0 /\ TargetLedger[i].total_amount >= 0
    /\ \E h \in TargetRows :
          /\ h.holding_quantity = 5
          /\ h.total_buy_amount = -ToFloat(250)
          /\ h.average_buy_price = -ToFloat(50)

-----------------------------------------------------------------------------
(* C28: batches with repeated timestamps (SpecUpsert draws every batch of   *)
(* up to MaxBatch records, those with a repeated timestamp included).       *)

\* The StockPrice rows the last call added to the store.
AddedByCall == prices \ prev.prices

RepeatsTime(records) ==
    \E i, j \in 1..Len(records) : i < j /\ records[i].time = records[j].time

C28_WitnessStored ==
    /\ runs = 1
    /\ Len(local.records) = 2 /\ RepeatsTime(local.records)
    /\ ~last.raised /\ last.ret = 0
    /\ local.records[1].time \in StoredTimes(prev.prices, last.stock_info_id)

-----------------------------------------------------------------------------
(* SpecLookup: the three transaction functions, each with its recomputation,*)
(* and the lookup of a holding row by (user_id, ticker), one call at a      *)
(* time.  The ticker of a transaction is a field of the request body, next  *)
(* to stock_info_id; nothing compares it with the ticker of the StockInfo.  *)

\* GET /holding/user/{user_id}/ticker/{ticker}
lookup_holding_by_ticker ==
    \E ticker \in Tickers :
        \E r \in {get_user_stock_holding_detail_by_ticker(holdings, TargetUser, ticker)} :
            /\ last' = [op |-> "get_user_stock_holding_detail_by_ticker",
                        ticker |-> ticker, ok |-> r.found, failed |-> r.raised]
            /\ UNCHANGED <<stockinfo, prices, transactions, holdings, nextInfoId,
                           nextTxId, nextHoldId, runs, prev, direct, pc, local>>

NextLookup ==
    \/ \E c \in TxCreates : create_stock_transaction(c)
    \/ \E id \in 1..MaxTxId, u \in TxUpdates : update_stock_transaction(id, u)
    \/ \E id \in 1..MaxTxId : delete_stock_transaction(id)
    \/ lookup_holding_by_ticker

SpecLookup == InitHolding /\ [][NextLookup]_vars

\* C29 as stated: in every state reached through transaction writes and
\* their recomputations at most one StockHoldingDetail row exists for a
\* (user_id, ticker), and the lookup by (user_id, ticker) never fails on
\* multiple matches.
C29_OneRowPerUserAndTicker ==
    /\ \A h, g \in holdings : (h.user_id = g.user_id /\ h.ticker = g.ticker) => h = g
    /\ last.op = "get_user_stock_holding_detail_by_ticker" => ~last.failed

\* The lookup alone: it has never failed on multiple matches.
C29_LookupNeverFails ==
    last.op = "get_user_stock_holding_detail_by_ticker" => ~last.failed

-----------------------------------------------------------------------------
(* C30: the metadata of a StockInfo that exists already (SpecPrice:         *)
(* create_stock_info supplies the name "n2", upsert_prices the name "n1").  *)

GetsOrCreates == {"create_stock_info", "upsert_stocks_from_dataframe"}

\* C30: a call of get_or_create_stock_info or of upsert_prices for a ticker
\* that is stored leaves every StockInfo row as it was (name, market,
\* currency and updated_at included), whatever name it supplies, and works
\* on the stored row; for a ticker that is not stored it adds one row, which
\* carries the supplied metadata.
C30_ExistingInfoKeepsMetadata ==
    [][last'.op \in GetsOrCreates =>
          IF InfoByTicker(stockinfo, last'.ticker) # {}
          THEN /\ stockinfo' = stockinfo
               /\ \A r \in InfoByTicker(stockinfo, last'.ticker) :
                     /\ r \in stockinfo'
                     /\ last'.stock_info_id = r.id
          ELSE \E r \in stockinfo' :
                  /\ stockinfo' = stockinfo \cup {r}
                  /\ r \notin stockinfo
                  /\ r.id = last'.stock_info_id
                  /\ r.ticker = last'.ticker
                  /\ r.name = last'.name
                  /\ r.market = StockInfoData(last'.ticker, last'.name).market
                  /\ r.currency = StockInfoData(last'.ticker, last'.name).currency]_vars

\* upsert_prices has supplied the name "n1" for a ticker whose row was
\* created with the name "n2", and inserted a price: the row still has "n2".
C30_Witness ==
    /\ last.op = "upsert_stocks_from_dataframe" /\ last.name = "n1"
    /\ ~last.raised /\ last.ret >= 1
    /\ \E r \in InfoByTicker(stockinfo, last.ticker) :
          r.id = last.stock_info_id /\ r.name = "n2" /\ r.updated_at = 0

====
